---------------------------- MODULE Spec2Model ----------------------------
(***************************************************************************)
(* Model of the Martingale DCA trading core: the Deal state machine and    *)
(* its drivers (backtest engine, paper slot, portfolio manager, live       *)
(* trader).                                                                *)
(*                                                                         *)
(* Arithmetic.  The program computes in binary floating point; the model   *)
(* computes in fixed point with floor division:                            *)
(*   prices      in ticks of 0.01 USD       (100.00 USD = 10000)           *)
(*   USD amounts in cents                   (100 USD    = 10000)           *)
(*   quantities  in 1/1000 of a coin                                       *)
(*   percentages in 1/1000 of a percent     (1.5 %      = 1500)            *)
(* so sums and differences are exact and a quotient is rounded once, at    *)
(* the place the program divides.                                          *)
(***************************************************************************)
EXTENDS Integers, Sequences, FiniteSets, TLC

VARIABLES
    mode,          \* which driver this behaviour runs: "bt" | "paper" | "pm" | "lt"
    \* ---- backtest engine (martingale_engine.py) ----
    bt_cfg,        \* the bot: [dual, bidirectional, dynamic_alloc, trailing, friendly,
                   \*           max_active_deals]
    bt_open,       \* open_deals
    bt_closed,     \* closed_deals
    bt_equity,     \* MartingaleBot.run: equity (free cash)
    bt_long_cap,   \* DualMartingaleBot.run: long_capital
    bt_short_cap,  \* DualMartingaleBot.run: short_capital
    bt_regime,     \* regimes.iloc[i] of the bar processed last
    bt_bar,        \* history: the bar processed last
    \* ---- paper slot (aster_trader_v3.py) ----
    pp_profile,    \* name of the risk profile behind profile_params
    pp_slot,       \* VirtualCoinSlot: [long_deal, short_deal, deal_counter, closed]
    pp_price,      \* current_price
    pp_regime,     \* current_regime
    pp_bullish,    \* _trend_bullish
    pp_restored,   \* the Deals were rebuilt by from_dict since the last cycle
    \* ---- portfolio manager (portfolio_manager.py) ----
    pm_dry_run,    \* PortfolioManager.dry_run
    pm_env,        \* which inputs this run is exercised with: "calm" | "rough"
    pm_slots,      \* slots, in the order the loop visits them
    pm_total_capital,
    pm_halted,
    pm_consecutive_errors,
    pm_pc,         \* position in start(): "off" | "top" | "slots" | "persist"
    pm_idx,        \* the Slot whose run_cycle comes next
    pm_disk,       \* portfolio_state.json: <<>> or <<[total_capital, halted]>>
    pm_initial_capital,  \* history: total_capital when this run started
    pm_equity,     \* history: equity _check_kill_switches read last (0: none)
    pm_exc_run,    \* history: cycles in a row that ended in the except handler
    pm_ping_run,   \* history: failed pings in a row
    \* ---- single-instrument engine (live_trader.py, paper_trader.py) ----
    lt_kind,       \* "live": LiveTrader (dry_run False) | "paper": PaperTrader
    lt_env,        \* which inputs this run is exercised with: "market" | "faults"
    lt,            \* the trader's fields
    lt_price,      \* current_price
    lt_regime,     \* current_regime
    lt_now,        \* the clock, in ticks of TickHours
    lt_disk,       \* state.json: <<>> or <<the dict save_state wrote>>
    lt_up,         \* start() is running
    lt_fail_run,   \* history: cycles in a row that ended in the except handler
    lt_trace,      \* history: what the last cycle decided
    \* ---- one live CoinSlot and its gateway (portfolio_manager.py) ----
    gw_env,        \* which inputs this run is exercised with: "faults" | "adaptive" | "sweep"
    gw_slot,       \* CoinSlot: [deal, deal_counter, deals_completed, current_tp_pct, ...]
    gw_orders,     \* the exchange's order book: order id -> order
    gw_position,   \* the exchange's position: entry fills held (0: flat)
    gw_lost_base,  \* history: a MARKET order executed whose reply never arrived
    gw_log,        \* history: the _place_tp_order calls of the last cycle
    \* ---- get_regime_alloc on its own (aster_trader_v3.py) ----
    al_in,         \* the call's inputs: [profile, regime, trend_bullish]
    al_out,        \* <<>> before the call, <<the pair returned>> after it
    \* ---- PortfolioManager.rebalance on its own (portfolio_manager.py) ----
    rb_kind,       \* "pm": PortfolioManager.rebalance | "v3": the paper
                   \* trader's read_scanner_and_allocate
    rb_env,        \* which inputs this run is exercised with: "alloc" | "rotate"
    rb_slots,      \* self.slots: symbol -> <<>> or <<the Slot>>
    rb_last,       \* history: <<[ranking, touched]>> of the rebalance call that
                   \* was the last step, <<>> when the last step was another
    rb_now,        \* time.time(), in hours
    rb_step,       \* history: the last step, its input and the Slots it
                   \* removed with a Deal open, [op, in_, forced]
    \* ---- live CoinSlots on one margin pool (portfolio_manager.py) ----
    mg_avail,      \* the exchange: available margin
    mg_slots,      \* the Slots: [deal, sos, cache, cache_time]
    mg_now,        \* time.time(), in seconds
    mg_idx,        \* the Slot whose cycle is next; NumSlots + 1: the pass is over
    mg_log,        \* history: the entry orders the last Slot cycle placed
    \* ---- the polling loop and its exits (portfolio_manager.py, aster_trader_v3.py) ----
    lp_kind,       \* "pm" | "v3"
    lp_pc,         \* where the main thread is
    lp_running,    \* self._running
    lp_st,         \* [cycle_count, consecutive_errors, halted]
    lp_disk,       \* <<>> or <<the last state written>>
    lp_exit,       \* history: [how, at] the loop was left
    \* ---- one Deal in the three engines (martingale_engine.py, paper_trader.py, portfolio_manager.py) ----
    eq_bt,         \* the backtest's Deal
    eq_pt,         \* the paper trader: [cash, open_deals, closed_deals, ...]
    eq_dry,        \* the dry-run CoinSlot
    eq_dry_fills,  \* history: safety_orders_filled of the Slot's Deal when last seen
    eq_n,          \* bars fed so far
    \* ---- regime classification (regime_detector.py, indicators.py) ----
    cg_df,         \* the caller's frame: [rows, columns]
    cg_TF_ADJ,     \* the module-level dict _TF_ADJ
    cg_seen,       \* history: the first result on cg_df per (version, timeframe)
    cg_last,       \* history: the last call [version, timeframe, own, df, out, base, repeat, between]
    cg_n,          \* calls made so far
    \* ---- position reconciliation (portfolio_manager.py) ----
    ps_slot,       \* the Slot's Deals: [long_deal, short_deal]
    ps_dry_run,    \* self.dry_run
    ps_orders,     \* ids of the safety orders open at the exchange
    ps_last,       \* history: the last call [called, rep, before, asked, log, events]
    ps_n           \* calls made so far

bt_vars == <<bt_cfg, bt_open, bt_closed, bt_equity, bt_long_cap, bt_short_cap,
             bt_regime, bt_bar>>
pp_vars == <<pp_profile, pp_slot, pp_price, pp_regime, pp_bullish, pp_restored>>
pm_vars == <<pm_dry_run, pm_env, pm_slots, pm_total_capital, pm_halted,
             pm_consecutive_errors, pm_pc, pm_idx, pm_disk, pm_initial_capital,
             pm_equity, pm_exc_run, pm_ping_run>>

lt_vars == <<lt_kind, lt_env, lt, lt_price, lt_regime, lt_now, lt_disk, lt_up,
             lt_fail_run, lt_trace>>

gw_vars == <<gw_env, gw_slot, gw_orders, gw_position, gw_lost_base, gw_log>>

\* the drivers that were added to the model after the first four
al_vars == <<al_in, al_out>>
rb_vars == <<rb_kind, rb_env, rb_slots, rb_last, rb_now, rb_step>>
ext_vars == <<gw_vars, al_vars, rb_vars>>
mg_vars == <<mg_avail, mg_slots, mg_now, mg_idx, mg_log>>
lp_vars == <<lp_kind, lp_pc, lp_running, lp_st, lp_disk, lp_exit>>
eq_vars == <<eq_bt, eq_pt, eq_dry, eq_dry_fills, eq_n>>
cg_vars == <<cg_df, cg_TF_ADJ, cg_seen, cg_last, cg_n>>
ps_vars == <<ps_slot, ps_dry_run, ps_orders, ps_last, ps_n>>
run_vars == <<mg_vars, lp_vars, eq_vars, cg_vars, ps_vars>>
\* what the actions of one of these drivers leave alone
not_mg == <<mode, bt_vars, pp_vars, pm_vars, lt_vars, ext_vars, lp_vars, eq_vars, cg_vars, ps_vars>>
not_lp == <<mode, bt_vars, pp_vars, pm_vars, lt_vars, ext_vars, mg_vars, eq_vars, cg_vars, ps_vars>>
not_cg == <<mode, bt_vars, pp_vars, pm_vars, lt_vars, ext_vars, mg_vars, lp_vars, eq_vars, ps_vars>>
not_ps == <<mode, bt_vars, pp_vars, pm_vars, lt_vars, ext_vars, mg_vars, lp_vars, eq_vars,
            cg_vars>>
not_eq == <<mode, bt_vars, pp_vars, pm_vars, lt_vars, ext_vars, mg_vars, lp_vars, cg_vars, ps_vars>>

vars == <<mode, bt_vars, pp_vars, pm_vars, lt_vars, ext_vars, run_vars>>

\* the inputs of the driver m: a behaviour runs one driver, the others get none
Inputs(m, S) == IF mode = m THEN S ELSE {}

-----------------------------------------------------------------------------
(* Units and generic helpers *)

Pct100 == 100 * 1000          \* 100 % in 1/1000 of a percent
QtyUnit == 10 * 100           \* one coin in quantity units
InfPrice == 1000 * 1000       \* float("inf") for a price

Max(a, b) == IF a >= b THEN a ELSE b
Min(a, b) == IF a <= b THEN a ELSE b

RECURSIVE SumField(_, _)
SumField(s, f) ==
    IF s = <<>> THEN 0 ELSE s[1][f] + SumField(Tail(s), f)

-----------------------------------------------------------------------------
(* MartingaleConfig (config.py), scaled to the model's units *)

base_order_size == 10000
safety_order_size == 20000
safety_order_multiplier_x10 == 15
price_deviation_pct == 1000
deviation_multiplier_x10 == 12
take_profit_pct == 1500
trailing_tp_pct_on == 500
fee_pct == 100
slippage_pct == 50
initial_capital == 1000000

\* bounds of the model (the configuration's limits, kept small)
max_safety_orders == 3
max_active_deals == 1
MaxDeals == 2

RECURSIVE DevTerm(_)
DevTerm(i) ==
    IF i = 1 THEN price_deviation_pct
    ELSE (DevTerm(i - 1) * deviation_multiplier_x10) \div 10

RECURSIVE so_deviation(_)
so_deviation(so_index) ==
    IF so_index = 0 THEN 0 ELSE so_deviation(so_index - 1) + DevTerm(so_index)

RECURSIVE so_size(_)
so_size(so_index) ==
    IF so_index = 1 THEN safety_order_size
    ELSE (so_size(so_index - 1) * safety_order_multiplier_x10) \div 10

-----------------------------------------------------------------------------
(* Order and Deal (martingale_engine.py) *)

fill_price(price, side) ==
    LET slip == (price * slippage_pct) \div Pct100
    IN  IF side = "buy" THEN price + slip ELSE price - slip

fee_of(size_usd) == (size_usd * fee_pct) \div Pct100

make_order(price, size_usd, side) ==
    LET fill == fill_price(price, side)
        fee  == fee_of(size_usd)
    IN  [price |-> fill, size_usd |-> size_usd,
         qty |-> ((size_usd - fee) * QtyUnit) \div fill, fee |-> fee]

NewDeal(order, direction) ==
    [direction |-> direction, base_order |-> order, safety_orders |-> <<>>,
     close_price |-> 0, close_fee |-> 0,
     trailing_high |-> 0, trailing_low |-> InfPrice]

is_open(d) == d.close_price = 0
total_invested(d) == d.base_order.size_usd + SumField(d.safety_orders, "size_usd")
total_qty(d) == d.base_order.qty + SumField(d.safety_orders, "qty")
avg_entry(d) ==
    IF total_qty(d) > 0 THEN (total_invested(d) * QtyUnit) \div total_qty(d) ELSE 0
total_fees(d) ==
    d.base_order.fee + SumField(d.safety_orders, "fee") + d.close_fee
so_count(d) == Len(d.safety_orders)

\* qty x price, in cents
Notional(qty, price) == (qty * price) \div QtyUnit

pnl(d) ==
    IF d.close_price = 0 THEN 0
    ELSE IF d.direction = "LONG"
    THEN LET revenue == Notional(total_qty(d), d.close_price) - d.close_fee
         IN  revenue - total_invested(d) - total_fees(d) + d.close_fee
    ELSE LET sold_value == total_invested(d) - (total_fees(d) - d.close_fee)
             cover_cost == Notional(total_qty(d), d.close_price) + d.close_fee
         IN  sold_value - cover_cost


-----------------------------------------------------------------------------
(* MartingaleBot / DualMartingaleBot: processing one bar for one Deal.      *)
(* The Dual methods are the single-bot methods plus the available-capital  *)
(* test and the deviation multiplier; the single bot is the case           *)
(* available_capital = inf, so_dev_mult = 1.0 (100).                       *)

so_trigger_price(d, n, so_dev_mult) ==
    LET dev == (so_deviation(n) * so_dev_mult) \div 100
    IN  IF d.direction = "LONG"
        THEN (d.base_order.price * (Pct100 - dev)) \div Pct100
        ELSE (d.base_order.price * (Pct100 + dev)) \div Pct100

so_crossed(d, n, high, low, so_dev_mult) ==
    IF d.direction = "LONG"
    THEN low <= so_trigger_price(d, n, so_dev_mult)
    ELSE high >= so_trigger_price(d, n, so_dev_mult)

entry_side(d) == IF d.direction = "LONG" THEN "buy" ELSE "sell"
exit_side(d) == IF d.direction = "LONG" THEN "sell" ELSE "buy"

\* mutant of process_safety_order: the deepest crossed level is filled
process_safety_order_deepest(d, high, low, available_capital, so_dev_mult) ==
    LET crossed == {n \in (so_count(d) + 1)..max_safety_orders :
                        so_crossed(d, n, high, low, so_dev_mult)}
    IN  IF crossed = {} THEN d
        ELSE LET n == CHOOSE m \in crossed : \A k \in crossed : k <= m
             IN  [d EXCEPT !.safety_orders = Append(@,
                    make_order(so_trigger_price(d, n, so_dev_mult), so_size(n),
                               entry_side(d)))]

\* "Check safety orders": at most the next ladder level fills on a bar
process_safety_order(d, high, low, available_capital, so_dev_mult) ==
    IF so_count(d) < max_safety_orders
    THEN LET next_so == so_count(d) + 1
         IN  IF /\ so_crossed(d, next_so, high, low, so_dev_mult)
                /\ so_size(next_so) <= available_capital
             THEN [d EXCEPT !.safety_orders = Append(@,
                     make_order(so_trigger_price(d, next_so, so_dev_mult),
                                so_size(next_so), entry_side(d)))]
             ELSE d
    ELSE d

tp_price_of(d) ==
    IF d.direction = "LONG"
    THEN (avg_entry(d) * (Pct100 + take_profit_pct)) \div Pct100
    ELSE (avg_entry(d) * (Pct100 - take_profit_pct)) \div Pct100

close_at(d, price) ==
    LET px == fill_price(price, exit_side(d))
    IN  [d EXCEPT !.close_price = px,
                  !.close_fee = fee_of(Notional(total_qty(d), px))]

\* "Check take profit": fixed, or trailing when trailing_tp_pct is set
process_take_profit(d, high, low, trailing_tp_pct) ==
    LET tp == tp_price_of(d)
        reached == IF d.direction = "LONG" THEN high >= tp ELSE low <= tp
    IN  IF ~reached THEN d
        ELSE IF trailing_tp_pct = 0 THEN close_at(d, tp)
        ELSE IF d.direction = "LONG"
        THEN LET th == Max(d.trailing_high, high)
                 trail_trigger == (th * (Pct100 - trailing_tp_pct)) \div Pct100
                 d1 == [d EXCEPT !.trailing_high = th]
             IN  IF low <= trail_trigger THEN close_at(d1, trail_trigger) ELSE d1
        ELSE LET tl == Min(d.trailing_low, low)
                 trail_trigger == (tl * (Pct100 + trailing_tp_pct)) \div Pct100
                 d1 == [d EXCEPT !.trailing_low = tl]
             IN  IF high >= trail_trigger THEN close_at(d1, trail_trigger) ELSE d1

process_deal(d, high, low, available_capital, so_dev_mult, trailing_tp_pct) ==
    process_take_profit(
        process_safety_order(d, high, low, available_capital, so_dev_mult),
        high, low, trailing_tp_pct)


-----------------------------------------------------------------------------
(* Regimes and the backtest allocation table *)

Regimes == {"ACCUMULATION", "CHOPPY", "RANGING", "DISTRIBUTION",
            "BREAKOUT_WARNING", "MILD_TREND", "TRENDING", "EXTREME"}

\* is_martingale_friendly / is_martingale_friendly_v2, as truth values
\* ("cautious" is a non-empty string: true where run() tests it)
is_martingale_friendly(regime) == regime \in {"CHOPPY", "RANGING"}
is_martingale_friendly_v2(regime) ==
    regime \in {"ACCUMULATION", "CHOPPY", "RANGING", "DISTRIBUTION"}
friendly_fn(which, regime) ==
    IF which = "v1" THEN is_martingale_friendly(regime)
    ELSE is_martingale_friendly_v2(regime)

\* DualMartingaleBot.REGIME_ALLOC, in percent
BT_REGIME_ALLOC(regime) ==
    CASE regime = "ACCUMULATION" -> <<70, 30>>
      [] regime = "CHOPPY" -> <<50, 50>>
      [] regime = "RANGING" -> <<50, 50>>
      [] regime = "DISTRIBUTION" -> <<30, 70>>
      [] regime = "MILD_TREND" -> <<60, 40>>
      [] regime = "TRENDING" -> <<75, 25>>
      [] regime = "EXTREME" -> <<0, 0>>
      [] regime = "BREAKOUT_WARNING" -> <<50, 50>>
      [] OTHER -> <<50, 50>>

\* DualMartingaleBot._get_alloc (long_alloc is 0.5 when not dynamic)
get_alloc(dynamic_alloc, regime) ==
    IF ~dynamic_alloc THEN <<50, 50>> ELSE BT_REGIME_ALLOC(regime)

\* _decide_direction: SHORT needs a regime of the short list; the indicator
\* tests on the bar window are the input want_short
decide_direction(bidirectional, regime, want_short) ==
    IF ~bidirectional THEN "LONG"
    ELSE IF regime = "ACCUMULATION" THEN "LONG"
    ELSE IF regime \in {"DISTRIBUTION", "CHOPPY", "RANGING", "MARKDOWN"} /\ want_short
    THEN "SHORT"
    ELSE "LONG"

\* what a closed Deal returns to free cash
returned_cash(d) ==
    IF d.direction = "LONG"
    THEN Notional(total_qty(d), d.close_price) - d.close_fee
    ELSE total_invested(d) + pnl(d)

CountDir(deals, dir) == Cardinality({i \in DOMAIN deals : deals[i].direction = dir})

-----------------------------------------------------------------------------
(* MartingaleBot.run: the body of the loop for one bar *)

RECURSIVE single_check_deals_keeps_closed(_, _, _, _)
\* mutant of single_check_deals: a closed Deal is recorded and stays in
\* open_deals
single_check_deals_keeps_closed(st, todo, bar, trailing) ==
    IF todo = <<>> THEN st
    ELSE LET d  == process_deal(Head(todo), bar.high, bar.low, InfPrice * 1000, 100, trailing)
             st1 == IF is_open(d)
                    THEN [st EXCEPT !.open = Append(@, d)]
                    ELSE [st EXCEPT !.open = Append(@, d),
                                    !.closed = Append(@, d),
                                    !.equity = @ + returned_cash(d)]
         IN  single_check_deals_keeps_closed(st1, Tail(todo), bar, trailing)

RECURSIVE single_check_deals(_, _, _, _)
\* st = [open, closed, equity]; todo = list(open_deals) still to visit
single_check_deals(st, todo, bar, trailing) ==
    IF todo = <<>> THEN st
    ELSE LET d  == process_deal(Head(todo), bar.high, bar.low, InfPrice * 1000, 100, trailing)
             st1 == IF is_open(d)
                    THEN [st EXCEPT !.open = Append(@, d)]
                    ELSE [st EXCEPT !.closed = Append(@, d),
                                    !.equity = @ + returned_cash(d)]
         IN  single_check_deals(st1, Tail(todo), bar, trailing)

\* mutant of single_can_open: the number of open Deals is not looked at
single_can_open_no_capacity(cfg, regime, open, equity) ==
    /\ friendly_fn(cfg.friendly, regime)
    /\ equity > base_order_size

single_can_open(cfg, regime, open, equity) ==
    /\ friendly_fn(cfg.friendly, regime)
    /\ Len(open) < cfg.max_active_deals
    /\ equity > base_order_size

single_open(st, cfg, bar, regime, want_short) ==
    IF single_can_open(cfg, regime, st.open, st.equity)
    THEN LET direction == decide_direction(cfg.bidirectional, regime, want_short)
             side == IF direction = "LONG" THEN "buy" ELSE "sell"
         IN  [st EXCEPT !.open = Append(@, NewDeal(make_order(bar.close,
                                        base_order_size, side), direction)),
                        !.equity = @ - base_order_size]
    ELSE st

BtSingleStep(bar, regime, want_short) ==
    /\ mode = "bt" /\ ~bt_cfg.dual
    /\ \E st \in {single_check_deals([open |-> <<>>, closed |-> bt_closed,
                                      equity |-> bt_equity],
                                     bt_open, bar, bt_cfg.trailing)} :
       \E st2 \in {single_open(st, bt_cfg, bar, regime, want_short)} :
          /\ Len(st2.open) + Len(st2.closed) <= MaxDeals
          /\ bt_open' = st2.open
          /\ bt_closed' = st2.closed
          /\ bt_equity' = st2.equity
    /\ bt_regime' = regime
    /\ bt_bar' = bar
    /\ UNCHANGED <<mode, run_vars, ext_vars, lt_vars, bt_cfg, bt_long_cap, bt_short_cap, pp_vars, pm_vars>>

-----------------------------------------------------------------------------
(* DualMartingaleBot.run: the body of the loop for one bar *)

RECURSIVE dual_check_deals(_, _, _, _, _)
\* st = [open, closed, long_capital, short_capital]
dual_check_deals(st, todo, bar, so_dev_mult, trailing) ==
    IF todo = <<>> THEN st
    ELSE LET d0 == Head(todo)
             isL == d0.direction = "LONG"
             d  == process_deal(d0, bar.high, bar.low,
                                IF isL THEN st.long_capital ELSE st.short_capital,
                                so_dev_mult, trailing)
             so_cost == total_invested(d) - total_invested(d0)
             back == IF is_open(d) THEN 0 ELSE returned_cash(d)
             st1 == [st EXCEPT
                       !.long_capital = IF isL THEN @ - so_cost + back ELSE @,
                       !.short_capital = IF isL THEN @ ELSE @ - so_cost + back,
                       !.open = IF is_open(d) THEN Append(@, d) ELSE @,
                       !.closed = IF is_open(d) THEN @ ELSE Append(@, d)]
         IN  dual_check_deals(st1, Tail(todo), bar, so_dev_mult, trailing)

\* "Dynamic rebalance: adjust free capital split each candle"
dual_rebalance(dynamic_alloc, regime, long_capital, short_capital) ==
    LET a == get_alloc(dynamic_alloc, regime)
        total_free == long_capital + short_capital
    IN  IF dynamic_alloc /\ total_free > 0 /\ a[1] + a[2] > 0
        THEN LET target_long == (total_free * a[1]) \div (a[1] + a[2])
             IN  <<target_long, total_free - target_long>>
        ELSE <<long_capital, short_capital>>

\* mutant of dual_can_open: the regime is not looked at
dual_can_open_any_regime(cfg, regime, open, dir, capital) ==
    /\ CountDir(open, dir) < cfg.max_active_deals
    /\ capital > base_order_size

dual_can_open(cfg, regime, open, dir, capital) ==
    /\ regime # "EXTREME"
    /\ CountDir(open, dir) < cfg.max_active_deals
    /\ capital > base_order_size

dual_open(st, cfg, regime, bar, dir) ==
    IF dual_can_open(cfg, regime, st.open, dir,
                     IF dir = "LONG" THEN st.long_capital ELSE st.short_capital)
    THEN [st EXCEPT
            !.open = Append(@, NewDeal(make_order(bar.close, base_order_size,
                                 IF dir = "LONG" THEN "buy" ELSE "sell"), dir)),
            !.long_capital = IF dir = "LONG" THEN @ - base_order_size ELSE @,
            !.short_capital = IF dir = "LONG" THEN @ ELSE @ - base_order_size]
    ELSE st

BtDualStep(bar, regime, so_dev_mult) ==
    /\ mode = "bt" /\ bt_cfg.dual
    /\ \E caps \in {dual_rebalance(bt_cfg.dynamic_alloc, regime,
                                   bt_long_cap, bt_short_cap)} :
       \E st \in {dual_check_deals([open |-> <<>>, closed |-> bt_closed,
                                    long_capital |-> caps[1],
                                    short_capital |-> caps[2]],
                                   bt_open, bar, so_dev_mult, bt_cfg.trailing)} :
       \E st1 \in {dual_open(st, bt_cfg, regime, bar, "LONG")} :
       \E st2 \in {dual_open(st1, bt_cfg, regime, bar, "SHORT")} :
          /\ Len(st2.open) + Len(st2.closed) <= MaxDeals + 1
          /\ bt_open' = st2.open
          /\ bt_closed' = st2.closed
          /\ bt_long_cap' = st2.long_capital
          /\ bt_short_cap' = st2.short_capital
    /\ bt_regime' = regime
    /\ bt_bar' = bar
    /\ UNCHANGED <<mode, run_vars, ext_vars, lt_vars, bt_cfg, bt_equity, pp_vars, pm_vars>>

-----------------------------------------------------------------------------
(* Inputs of the backtest: bars over a small price grid *)

Prices == {9700, 10000, 10200}
\* a bar closes at its low or at its high
Bars == {[high |-> h, low |-> l, close |-> c] :
            h \in Prices, l \in Prices, c \in Prices}
GoodBars == {b \in Bars : b.low <= b.high /\ b.close \in {b.low, b.high}}
RegimeInputs == {"RANGING", "DISTRIBUTION", "TRENDING", "EXTREME"}
DevMults == {100, 150}

BtCfg(dual, bidir, dyn, vol, trailing, friendly) ==
    [dual |-> dual, bidirectional |-> bidir, dynamic_alloc |-> dyn,
     vol_adjusted_so |-> vol, trailing |-> trailing, friendly |-> friendly,
     max_active_deals |-> max_active_deals]

\* bound: the widest max_active_deals a backtest runs with (config.py has 3)
BtMaxActive == 2

BtConfigs ==
    { BtCfg(FALSE, FALSE, FALSE, FALSE, 0, "v1"),
      BtCfg(FALSE, TRUE, FALSE, FALSE, 0, "v2"),
      [BtCfg(FALSE, TRUE, FALSE, FALSE, 0, "v2") EXCEPT !.max_active_deals = BtMaxActive],
      BtCfg(FALSE, TRUE, FALSE, FALSE, trailing_tp_pct_on, "v2"),
      BtCfg(TRUE, FALSE, TRUE, FALSE, 0, "v2"),
      [BtCfg(TRUE, FALSE, TRUE, FALSE, 0, "v2") EXCEPT !.max_active_deals = BtMaxActive],
      BtCfg(TRUE, FALSE, FALSE, TRUE, 0, "v2"),
      BtCfg(TRUE, FALSE, FALSE, FALSE, trailing_tp_pct_on, "v2") }

BtInit ==
    /\ bt_cfg \in (IF mode = "bt" THEN BtConfigs
                   ELSE {BtCfg(FALSE, FALSE, FALSE, FALSE, 0, "v1")})
    /\ bt_open = <<>>
    /\ bt_closed = <<>>
    /\ bt_equity = initial_capital
    /\ bt_long_cap = initial_capital \div 2
    /\ bt_short_cap = initial_capital \div 2
    /\ bt_regime = "RANGING"
    /\ bt_bar = [high |-> 10000, low |-> 10000, close |-> 10000]

BtNext ==
    \/ \E bar \in Inputs("bt", GoodBars), regime \in RegimeInputs, want_short \in BOOLEAN :
          \* want_short is read only where decide_direction tests it
          /\ want_short => /\ bt_cfg.bidirectional
                           /\ regime \in {"DISTRIBUTION", "RANGING"}
          /\ BtSingleStep(bar, regime, want_short)
    \/ \E bar \in Inputs("bt", GoodBars), regime \in RegimeInputs, m \in DevMults :
          /\ (~bt_cfg.vol_adjusted_so => m = 100)
          /\ BtDualStep(bar, regime, m)

-----------------------------------------------------------------------------
(* Paper slot (aster_trader_v3.py): VirtualDeal and VirtualCoinSlot.        *)
(* Units here: a price is a number of ticks (DEFAULT_TICK_SIZE), a quantity *)
(* a number of steps (DEFAULT_STEP_SIZE), a cost or USD amount a number of  *)
(* tick x step, so that price x qty is exact.                               *)

UsdUnit == 1000 * 100         \* one USD in tick x step
DEFAULT_MIN_QTY == 1
DEFAULT_MIN_NOTIONAL == 5 * UsdUnit
paper_alloc_capital == 1000 * UsdUnit

\* bound: profile_params["max_safety_orders"], kept small
paper_max_safety_orders == 3

\* round(x / y) to the nearest integer
RoundDiv(x, y) == (x + y \div 2) \div y

PROFILES(name) ==
    IF name = "low"
    THEN [max_safety_orders |-> paper_max_safety_orders, so_volume_mult_x10 |-> 20,
          base_order_pct |-> 4000, tp_range |-> <<600, 2500>>,
          deviation_range |-> <<1200, 4000>>, extreme_allocation |-> <<0, 0>>,
          max_directional_bias |-> <<75, 25>>]
    ELSE IF name = "high"
    THEN [max_safety_orders |-> paper_max_safety_orders, so_volume_mult_x10 |-> 30,
          base_order_pct |-> 8000, tp_range |-> <<200, 1500>>,
          deviation_range |-> <<500, 2000>>, extreme_allocation |-> <<40, 40>>,
          max_directional_bias |-> <<95, 5>>]
    ELSE [max_safety_orders |-> paper_max_safety_orders, so_volume_mult_x10 |-> 25,
          base_order_pct |-> 6000, tp_range |-> <<400, 2000>>,
          deviation_range |-> <<800, 3000>>, extreme_allocation |-> <<20, 20>>,
          max_directional_bias |-> <<85, 15>>]

\* aster_trader_v3.REGIME_ALLOC, in percent
V3_REGIME_ALLOC(regime) ==
    CASE regime = "ACCUMULATION" -> <<70, 30>>
      [] regime = "CHOPPY" -> <<50, 50>>
      [] regime = "RANGING" -> <<50, 50>>
      [] regime = "DISTRIBUTION" -> <<30, 70>>
      [] regime = "MILD_TREND" -> <<60, 40>>
      [] regime = "TRENDING" -> <<75, 25>>
      [] regime = "EXTREME" -> <<0, 0>>
      [] regime = "BREAKOUT_WARNING" -> <<0, 0>>
      [] OTHER -> <<50, 50>>

DIRECTIONAL_REGIMES == {"TRENDING", "MILD_TREND", "DISTRIBUTION"}

\* the profiles; the regimes of REGIME_ALLOC and one the tables do not know
AllProfiles == {"low", "medium", "high"}
AllRegimes == {"ACCUMULATION", "CHOPPY", "RANGING", "DISTRIBUTION", "MILD_TREND",
               "TRENDING", "EXTREME", "BREAKOUT_WARNING", "UNKNOWN", "SQUEEZE"}

\* VirtualDeal(...) followed by __post_init__
VirtualDeal(deal_id, entry_price, entry_qty, entry_cost, direction) ==
    [deal_id |-> deal_id, direction |-> direction, entry_price |-> entry_price,
     entry_qty |-> entry_qty, entry_cost |-> entry_cost,
     safety_orders_filled |-> 0, virtual_so_levels |-> <<>>, tp_price |-> 0,
     total_qty |-> entry_qty, total_cost |-> entry_cost,
     avg_entry |-> entry_price]

\* mutant of add_fill: the stored average is not recomputed
add_fill_stale(deal, price, qty, cost) ==
    [deal EXCEPT !.total_qty = @ + qty,
                 !.total_cost = @ + cost,
                 !.safety_orders_filled = @ + 1]

add_fill(deal, price, qty, cost) ==
    LET tq == deal.total_qty + qty
        tc == deal.total_cost + cost
    IN  [deal EXCEPT !.total_qty = tq,
                     !.total_cost = tc,
                     !.avg_entry = IF tq > 0 THEN tc \div tq ELSE 0,
                     !.safety_orders_filled = @ + 1]

calc_tp_price(deal, tp_pct) ==
    IF deal.direction = "SHORT"
    THEN RoundDiv(deal.avg_entry * (Pct100 - tp_pct), Pct100)
    ELSE RoundDiv(deal.avg_entry * (Pct100 + tp_pct), Pct100)

\* to_dict copies every field; from_dict is cls(**d), which runs
\* __post_init__ on the copied fields
to_dict(deal) ==
    [deal_id |-> deal.deal_id, direction |-> deal.direction,
     entry_price |-> deal.entry_price, entry_qty |-> deal.entry_qty,
     entry_cost |-> deal.entry_cost,
     safety_orders_filled |-> deal.safety_orders_filled,
     virtual_so_levels |-> deal.virtual_so_levels, tp_price |-> deal.tp_price,
     total_qty |-> deal.total_qty, total_cost |-> deal.total_cost,
     avg_entry |-> deal.avg_entry]

from_dict(d) ==
    IF d.total_qty = 0
    THEN [d EXCEPT !.total_qty = d.entry_qty, !.total_cost = d.entry_cost,
                   !.avg_entry = d.entry_price]
    ELSE d

RECURSIVE v3_so_size_usd(_, _, _)
\* base_order_usd * so_volume_mult ** n
v3_so_size_usd(base_order_usd, mult_x10, n) ==
    IF n = 0 THEN base_order_usd
    ELSE (v3_so_size_usd(base_order_usd, mult_x10, n - 1) * mult_x10) \div 10

v3_base_order_usd(p) == (p.base_order_pct * (paper_alloc_capital \div 1000)) \div 100

\* the mid-range take profit that __init__ and open_deal both set
v3_current_tp_pct(p) == p.tp_range[1] + (p.tp_range[2] - p.tp_range[1]) \div 2

v3_so_level(p, deal, n) ==
    LET dr == p.deviation_range
        deviation_pct == dr[1] + ((dr[2] - dr[1]) * Min(n, p.max_safety_orders))
                                    \div p.max_safety_orders
        so_price == IF deal.direction = "LONG"
                    THEN RoundDiv(deal.entry_price * (Pct100 - deviation_pct * n), Pct100)
                    ELSE RoundDiv(deal.entry_price * (Pct100 + deviation_pct * n), Pct100)
        size_usd == v3_so_size_usd(v3_base_order_usd(p), p.so_volume_mult_x10, n)
    IN  [level |-> n, price |-> so_price, qty |-> RoundDiv(size_usd, so_price),
         size_usd |-> size_usd, filled |-> FALSE]

RECURSIVE v3_levels_from(_, _, _)
v3_levels_from(p, deal, n) ==
    IF n > p.max_safety_orders THEN <<>>
    ELSE LET l == v3_so_level(p, deal, n)
         IN  IF l.qty < DEFAULT_MIN_QTY \/ l.qty * l.price < DEFAULT_MIN_NOTIONAL
             THEN <<>>
             ELSE <<l>> \o v3_levels_from(p, deal, n + 1)

create_so_levels(p, deal) ==
    [deal EXCEPT !.virtual_so_levels = v3_levels_from(p, deal, 1)]

\* mutant of get_regime_alloc: the maximum directional bias is not applied
get_regime_alloc_uncapped(p, regime, trend_bullish) ==
    LET a0 == IF regime = "EXTREME" THEN p.extreme_allocation
              ELSE V3_REGIME_ALLOC(regime)
    IN  IF regime \in DIRECTIONAL_REGIMES /\ ~trend_bullish
        THEN <<a0[2], a0[1]>> ELSE a0

get_regime_alloc(p, regime, trend_bullish) ==
    LET a0 == IF regime = "EXTREME" THEN p.extreme_allocation
              ELSE V3_REGIME_ALLOC(regime)
        a1 == IF regime \in DIRECTIONAL_REGIMES /\ ~trend_bullish
              THEN <<a0[2], a0[1]>> ELSE a0
        max_long == p.max_directional_bias[1]
        max_short == p.max_directional_bias[2]
        a2 == IF a1[1] > max_long
              THEN <<max_long, Min(a1[2] + (a1[1] - max_long), 100)>> ELSE a1
    IN  IF a2[2] > max_short
        THEN <<Min(a2[1] + (a2[2] - max_short), 100), max_short>> ELSE a2

\* the slot's two Deal fields: a sequence of length 0 (None) or 1
v3_get_deal(st, direction) == IF direction = "LONG" THEN st.long_deal ELSE st.short_deal
v3_set_deal(st, direction, deal) ==
    IF direction = "LONG" THEN [st EXCEPT !.long_deal = deal]
    ELSE [st EXCEPT !.short_deal = deal]

\* VirtualCoinSlot.open_deal; st = [long_deal, short_deal, deal_counter, closed]
v3_open_deal(p, st, current_price, direction) ==
    LET base_order_usd == v3_base_order_usd(p)
        entry_price == IF direction = "LONG"
                       THEN RoundDiv(current_price * 10001, 10000)
                       ELSE RoundDiv(current_price * 9999, 10000)
        qty == RoundDiv(base_order_usd, entry_price)
    IN  IF current_price <= 0 \/ base_order_usd < DEFAULT_MIN_NOTIONAL
           \/ qty < DEFAULT_MIN_QTY
        THEN st
        ELSE LET d0 == VirtualDeal(st.deal_counter + 1, entry_price, qty,
                                   entry_price * qty, direction)
                 d1 == create_so_levels(p, d0)
                 d2 == [d1 EXCEPT !.tp_price = calc_tp_price(d1, v3_current_tp_pct(p))]
             IN  v3_set_deal([st EXCEPT !.deal_counter = @ + 1], direction, <<d2>>)

RECURSIVE v3_fill_levels_stale_tp(_, _, _, _)
\* mutant of v3_fill_levels: the take-profit price is not moved to the new
\* average after a fill
v3_fill_levels_stale_tp(p, deal, i, current_price) ==
    IF i > Len(deal.virtual_so_levels) THEN deal
    ELSE LET so_level == deal.virtual_so_levels[i]
             so_triggered ==
                \/ deal.direction = "LONG" /\ current_price <= so_level.price
                \/ deal.direction = "SHORT" /\ current_price >= so_level.price
         IN  IF so_level.filled
             THEN v3_fill_levels_stale_tp(p, deal, i + 1, current_price)
             ELSE IF so_triggered
             THEN LET fill_px == RoundDiv(so_level.price * 10001, 10000)
                      d1 == add_fill(deal, fill_px, so_level.qty,
                                     fill_px * so_level.qty)
                      d2 == [d1 EXCEPT !.virtual_so_levels[i].filled = TRUE]
                  IN  v3_fill_levels_stale_tp(p, d2, i + 1, current_price)
             ELSE deal

RECURSIVE v3_fill_levels(_, _, _, _)
\* "Check SO fills (in order from shallow to deep)", from list index i on
v3_fill_levels(p, deal, i, current_price) ==
    IF i > Len(deal.virtual_so_levels) THEN deal
    ELSE LET so_level == deal.virtual_so_levels[i]
             so_triggered ==
                \/ deal.direction = "LONG" /\ current_price <= so_level.price
                \/ deal.direction = "SHORT" /\ current_price >= so_level.price
         IN  IF so_level.filled THEN v3_fill_levels(p, deal, i + 1, current_price)
             ELSE IF so_triggered
             THEN LET fill_px == RoundDiv(so_level.price * 10001, 10000)
                      d1 == add_fill(deal, fill_px, so_level.qty,
                                     fill_px * so_level.qty)
                      d2 == [d1 EXCEPT !.virtual_so_levels[i].filled = TRUE]
                      d3 == [d2 EXCEPT !.tp_price =
                                calc_tp_price(d2, v3_current_tp_pct(p))]
                  IN  v3_fill_levels(p, d3, i + 1, current_price)
             ELSE deal

v3_calc_pnl(close_price, qty_total, cost_total, direction) ==
    IF direction = "SHORT" THEN cost_total - qty_total * close_price
    ELSE qty_total * close_price - cost_total

\* check_deals_for_fills, for the Deal of one direction
v3_check_direction(p, st, current_price, direction) ==
    IF v3_get_deal(st, direction) = <<>> THEN st
    ELSE LET deal == v3_fill_levels(p, v3_get_deal(st, direction)[1], 1, current_price)
             tp_hit == \/ direction = "LONG" /\ current_price >= deal.tp_price
                       \/ direction = "SHORT" /\ current_price <= deal.tp_price
             fill_px == IF direction = "LONG"
                           THEN RoundDiv(deal.tp_price * 9999, 10000)
                           ELSE RoundDiv(deal.tp_price * 10001, 10000)
         IN  IF tp_hit
             THEN [v3_set_deal(st, direction, <<>>) EXCEPT !.closed = Append(@,
                     [direction |-> direction, total_qty |-> deal.total_qty,
                      total_cost |-> deal.total_cost, close_price |-> fill_px,
                      realized_pnl |-> v3_calc_pnl(fill_px, deal.total_qty,
                                                   deal.total_cost, direction)])]
             ELSE v3_set_deal(st, direction, <<deal>>)

check_deals_for_fills(p, st, current_price) ==
    IF current_price <= 0 THEN st
    ELSE v3_check_direction(p, v3_check_direction(p, st, current_price, "LONG"),
                            current_price, "SHORT")

-----------------------------------------------------------------------------
(* VirtualCoinSlot.run_cycle and the rebuild of its Deals from their dicts *)

v3_open_if(p, st, current_price, direction, alloc) ==
    IF v3_get_deal(st, direction) = <<>> /\ alloc > 0
    THEN v3_open_deal(p, st, current_price, direction)
    ELSE st

\* detect_regime: ok = the klines call returned at least 100 rows and the
\* classification went through; otherwise price and trend are left as they are
PaperRunCycle(ok, price, regime, bullish) ==
    /\ mode = "paper"
    /\ pp_price' = IF ok THEN price ELSE pp_price
    /\ pp_regime' = IF ok THEN regime ELSE pp_regime
    /\ pp_bullish' = IF ok THEN bullish ELSE pp_bullish
    /\ \E p \in {PROFILES(pp_profile)} :
       \E st \in {check_deals_for_fills(p, pp_slot, pp_price')} :
       \E alloc \in {get_regime_alloc(p, pp_regime', pp_bullish')} :
       \E st1 \in {v3_open_if(p, st, pp_price', "LONG", alloc[1])} :
       \E st2 \in {v3_open_if(p, st1, pp_price', "SHORT", alloc[2])} :
          /\ st2.deal_counter <= MaxDeals + 1
          /\ pp_slot' = IF pp_price' <= 0 THEN pp_slot ELSE st2
    /\ pp_restored' = FALSE
    /\ UNCHANGED <<mode, run_vars, ext_vars, lt_vars, bt_vars, pm_vars, pp_profile>>

v3_restore(deal) == IF deal = <<>> THEN <<>> ELSE <<from_dict(to_dict(deal[1]))>>

PaperRestore ==
    /\ mode = "paper"
    /\ pp_slot.long_deal # <<>> \/ pp_slot.short_deal # <<>>
    /\ pp_slot' = [pp_slot EXCEPT !.long_deal = v3_restore(@),
                                  !.short_deal = v3_restore(@)]
    /\ pp_restored' = TRUE
    /\ UNCHANGED <<mode, run_vars, ext_vars, lt_vars, bt_vars, pm_vars, pp_profile, pp_price, pp_regime, pp_bullish>>

PaperPrices == {8700, 9300, 9700, 10000, 10200}
PaperRegimes == {"RANGING", "TRENDING", "EXTREME"}

PaperInit ==
    /\ pp_profile \in (IF mode = "paper" THEN {"low", "medium"} ELSE {"low"})
    /\ pp_slot = [long_deal |-> <<>>, short_deal |-> <<>>, deal_counter |-> 0,
                  closed |-> <<>>]
    /\ pp_price = 0
    /\ pp_regime = "UNKNOWN"
    /\ pp_bullish = TRUE
    /\ pp_restored = FALSE

PaperNext ==
    \/ \E ok \in Inputs("paper", BOOLEAN), price \in PaperPrices, regime \in PaperRegimes,
          bullish \in BOOLEAN : PaperRunCycle(ok, price, regime, bullish)
    \/ PaperRestore

-----------------------------------------------------------------------------
(* Portfolio manager (portfolio_manager.py): CoinSlot.                      *)
(* Units as for the paper slot; capital and equity are whole USD.           *)
(* LiveDeal and REGIME_ALLOC come from the module aster_trader, which is    *)
(* not part of the source tree: they follow the specification's Deal and    *)
(* Allocation Policy.                                                       *)

TP_PCT == 1500
DEVIATION_PCT == 2500
SO_VOL_MULT == 2
BASE_ORDER_PCT == 4                 \* percent
CAPITAL_RESERVE_PCT == 10           \* percent
FEE_PCT == 50                       \* 0.05 %
PM_MIN_QTY == 1
PM_MIN_NOTIONAL == 5 * UsdUnit

\* bound: CoinSlot.MAX_SOS, kept small
MAX_SOS == 2

\* aster_trader.LiveDeal; so_levels lists, in order, the ladder level of
\* every fill added (a history of the add_fill calls)
PmLiveDeal(deal_id, entry_price, entry_qty, entry_cost, direction) ==
    [deal_id |-> deal_id, direction |-> direction, entry_price |-> entry_price,
     safety_orders_filled |-> 0, total_qty |-> entry_qty,
     total_cost |-> entry_cost, so_levels |-> <<>>,
     safety_order_ids |-> <<>>, tp_order_id |-> FALSE]

pm_add_fill(deal, n, qty, cost) ==
    [deal EXCEPT !.total_qty = @ + qty, !.total_cost = @ + cost,
                 !.safety_orders_filled = @ + 1,
                 !.so_levels = Append(@, n)]

pm_avg_entry(deal) ==
    IF deal.total_qty > 0 THEN deal.total_cost \div deal.total_qty ELSE 0

pm_tp_price(deal, tp_pct) ==
    IF deal.direction = "SHORT"
    THEN RoundDiv(pm_avg_entry(deal) * (Pct100 - tp_pct), Pct100)
    ELSE RoundDiv(pm_avg_entry(deal) * (Pct100 + tp_pct), Pct100)

PM_REGIME_ALLOC(regime) ==
    CASE regime = "ACCUMULATION" -> <<70, 30>>
      [] regime = "TRENDING" -> <<75, 25>>
      [] regime = "EXTREME" -> <<0, 0>>
      [] OTHER -> <<50, 50>>

\* CoinSlot.get_regime_alloc
pm_get_regime_alloc(regime, trend_bullish) ==
    LET a == PM_REGIME_ALLOC(regime)
    IN  IF regime \in DIRECTIONAL_REGIMES /\ ~trend_bullish
        THEN <<a[2], a[1]>> ELSE a

\* alloc_capital as add_coin and the "Update capital" step of start set it
pm_alloc_capital(total_capital, alloc_pct) ==
    ((total_capital * alloc_pct * (100 - CAPITAL_RESERVE_PCT)) \div 100) * (UsdUnit \div 100)

base_order_usd(alloc_capital) == (alloc_capital * BASE_ORDER_PCT) \div 100

pm_so_price(entry, n, direction, current_dev_pct) ==
    IF direction = "SHORT"
    THEN RoundDiv(entry * (Pct100 + current_dev_pct * n), Pct100)
    ELSE RoundDiv(entry * (Pct100 - current_dev_pct * n), Pct100)

RECURSIVE so_qty(_, _)
\* base_qty_usd * SO_VOL_MULT ** n
so_qty(base_qty_usd, n) ==
    IF n = 0 THEN base_qty_usd ELSE so_qty(base_qty_usd, n - 1) * SO_VOL_MULT

pm_get_deal(slot, direction) ==
    IF direction = "LONG" THEN slot.long_deal ELSE slot.short_deal
pm_set_deal(slot, direction, deal) ==
    IF direction = "LONG" THEN [slot EXCEPT !.long_deal = deal]
    ELSE [slot EXCEPT !.short_deal = deal]

pm_calc_pnl(close_price, qty_total, cost_total, direction) ==
    IF direction = "SHORT" THEN cost_total - qty_total * close_price
    ELSE qty_total * close_price - cost_total

pm_record_close(slot, deal, close_price) ==
    [pm_set_deal(slot, deal.direction, <<>>) EXCEPT !.closed = Append(@,
        [direction |-> deal.direction, total_qty |-> deal.total_qty,
         total_cost |-> deal.total_cost, close_price |-> close_price,
         realized_pnl |-> pm_calc_pnl(close_price, deal.total_qty,
                                      deal.total_cost, deal.direction)])]

RECURSIVE pm_dry_fill(_, _, _, _)
\* _dry_run_check, "Check SOs": for n in range(filled + 1, MAX_SOS + 1)
pm_dry_fill(slot, deal, n, alloc_capital) ==
    IF n > MAX_SOS THEN deal
    ELSE LET so_p == pm_so_price(deal.entry_price, n, deal.direction,
                                 slot.current_dev_pct)
             triggered ==
                \/ deal.direction = "LONG" /\ slot.current_price <= so_p
                \/ deal.direction = "SHORT" /\ slot.current_price >= so_p
             size_usd == so_qty(base_order_usd(alloc_capital), n)
         IN  IF triggered
             THEN pm_dry_fill(slot, pm_add_fill(deal, n, RoundDiv(size_usd, so_p),
                                                size_usd),
                              n + 1, alloc_capital)
             ELSE deal

pm_dry_check_direction(slot, direction, alloc_capital) ==
    IF pm_get_deal(slot, direction) = <<>> THEN slot
    ELSE LET d0 == pm_get_deal(slot, direction)[1]
             deal == pm_dry_fill(slot, d0, d0.safety_orders_filled + 1, alloc_capital)
             tp == pm_tp_price(deal, slot.current_tp_pct)
             tp_hit == \/ direction = "LONG" /\ slot.current_price >= tp
                       \/ direction = "SHORT" /\ slot.current_price <= tp
         IN  IF tp_hit THEN pm_record_close(slot, deal, tp)
             ELSE pm_set_deal(slot, direction, <<deal>>)

\* _dry_run_check: list(self._active_deals()) is the long Deal, then the short
dry_run_check(slot, alloc_capital) ==
    pm_dry_check_direction(pm_dry_check_direction(slot, "LONG", alloc_capital),
                           "SHORT", alloc_capital)

\* mutant of pm_open_rollback: the counter is left incremented
pm_open_rollback_missing(slot) == slot

\* "self.deal_counter -= 1" of the two failure paths of open_deal
pm_open_rollback(slot) == [slot EXCEPT !.deal_counter = @ - 1]

RECURSIVE pm_so_ids(_, _, _, _)
\* _place_so_orders: the ladder levels whose LIMIT order is placed
pm_so_ids(slot, deal, n, alloc_capital) ==
    IF n > MAX_SOS THEN <<>>
    ELSE LET so_p == pm_so_price(deal.entry_price, n, deal.direction,
                                 slot.current_dev_pct)
             qty == RoundDiv(so_qty(base_order_usd(alloc_capital), n), so_p)
         IN  IF qty < PM_MIN_QTY \/ qty * so_p < PM_MIN_NOTIONAL THEN <<>>
             ELSE <<n>> \o pm_so_ids(slot, deal, n + 1, alloc_capital)

\* CoinSlot.open_deal; outcome is what the gateway does with the MARKET order:
\* "filled", "nofill" (no fill after the ten polls) or "exception"
pm_open_deal(slot, direction, alloc_capital, dry_run, outcome) ==
    LET bo_usd == base_order_usd(alloc_capital)
        qty == RoundDiv(bo_usd, slot.current_price)
        s1 == [slot EXCEPT !.deal_counter = @ + 1]
        new_deal == PmLiveDeal(s1.deal_counter, slot.current_price, qty,
                               qty * slot.current_price, direction)
    IN  IF bo_usd < PM_MIN_NOTIONAL \/ qty < PM_MIN_QTY THEN slot
        ELSE IF dry_run THEN pm_set_deal(s1, direction, <<new_deal>>)
        ELSE IF outcome = "filled"
        THEN pm_set_deal(s1, direction,
                <<[new_deal EXCEPT
                     !.safety_order_ids = pm_so_ids(slot, new_deal, 1, alloc_capital),
                     !.tp_order_id = TRUE]>>)
        ELSE pm_open_rollback(s1)

\* _check_orders_for_deal; ev tells which order the gateway reports FILLED
pm_check_orders_for_deal(slot, direction, ev, alloc_capital) ==
    IF pm_get_deal(slot, direction) = <<>> THEN slot
    ELSE LET d0 == pm_get_deal(slot, direction)[1]
             deal == [d0 EXCEPT !.tp_order_id = TRUE]
             tp_filled == ev = (IF direction = "LONG" THEN "tp_long" ELSE "tp_short")
             so_filled == /\ ev = (IF direction = "LONG" THEN "so_long" ELSE "so_short")
                          /\ deal.safety_order_ids # <<>>
         IN  IF tp_filled
             THEN pm_record_close(slot, deal, pm_tp_price(deal, slot.current_tp_pct))
             ELSE IF so_filled
             THEN LET n == Head(deal.safety_order_ids)
                      so_p == pm_so_price(deal.entry_price, n, direction,
                                          slot.current_dev_pct)
                      qty == RoundDiv(so_qty(base_order_usd(alloc_capital), n), so_p)
                  IN  pm_set_deal(slot, direction,
                         <<[pm_add_fill(deal, n, qty, so_p * qty) EXCEPT
                              !.safety_order_ids = Tail(@)]>>)
             ELSE pm_set_deal(slot, direction, <<deal>>)

check_orders(slot, dry_run, ev, alloc_capital) ==
    IF dry_run THEN dry_run_check(slot, alloc_capital)
    ELSE pm_check_orders_for_deal(
            pm_check_orders_for_deal(slot, "LONG", ev, alloc_capital),
            "SHORT", ev, alloc_capital)

\* check_position_sync; ev tells what position the gateway reports
check_position_sync(slot, ev) ==
    LET has_long == slot.long_deal # <<>>
        has_short == slot.short_deal # <<>>
    IN  IF ev = "flat"
        THEN IF has_long /\ ~has_short THEN [slot EXCEPT !.long_deal = <<>>]
             ELSE IF has_short /\ ~has_long THEN [slot EXCEPT !.short_deal = <<>>]
             ELSE slot
        ELSE IF ev = "pos_long" /\ has_long /\ has_short
        THEN [slot EXCEPT !.short_deal = <<>>]
        ELSE IF ev = "pos_short" /\ has_long /\ has_short
        THEN [slot EXCEPT !.long_deal = <<>>]
        ELSE slot

close_all(slot) == [slot EXCEPT !.long_deal = <<>>, !.short_deal = <<>>]

pm_check_and_sync(slot, dry_run, ev, alloc_capital) ==
    IF dry_run THEN check_orders(slot, dry_run, ev, alloc_capital)
    ELSE check_position_sync(check_orders(slot, dry_run, ev, alloc_capital), ev)

\* "if not self.long_deal and long_alloc > 0: self.open_deal(...)"; opens is
\* history: what each open_deal call of the cycle was given (had: the Deal
\* the direction held at the call) and left behind
pm_open_if(slot, direction, alloc, alloc_capital, dry_run, outcome) ==
    IF pm_get_deal(slot, direction) = <<>> /\ alloc > 0
    THEN LET s1 == pm_open_deal(slot, direction, alloc_capital, dry_run, outcome)
         IN  [s1 EXCEPT !.opens = Append(@,
                 [direction |-> direction,
                  outcome |-> IF dry_run THEN "filled" ELSE outcome,
                  before |-> slot.deal_counter, after |-> s1.deal_counter,
                  had |-> pm_get_deal(slot, direction),
                  deal |-> pm_get_deal(s1, direction)])]
    ELSE slot

\* CoinSlot.detect_regime followed by "self.current_regime = ..." of
\* run_cycle.  fetch is what api.klines does: "ok" (100 bars or more: price
\* and regime are the last bar's), "short" (fewer than 100 bars: the regime
\* becomes UNKNOWN, current_price is not assigned) or "error" (an exception:
\* the regime returned is self.current_regime, current_price is not
\* assigned).  fetched is history: the pair this cycle's klines gave.
detect_regime(slot, in_) ==
    IF in_.fetch = "ok"
    THEN [slot EXCEPT !.current_price = in_.price,
                      !.current_regime = in_.regime,
                      !.fetched = <<[price |-> in_.price, regime |-> in_.regime]>>]
    ELSE IF in_.fetch = "short"
    THEN [slot EXCEPT !.current_regime = "UNKNOWN", !.fetched = <<>>]
    ELSE [slot EXCEPT !.fetched = <<>>]

\* CoinSlot.run_cycle.  in_ = [fetch, price, regime, ev, out_long, out_short]:
\* what detect_regime and the gateway return during this cycle.  With
\* current_price still 0.0 open_deal raises ZeroDivisionError before it
\* changes anything; the caller logs it.
slot_run_cycle(slot, dry_run, in_, alloc_capital) ==
    LET s0 == [detect_regime(slot, in_) EXCEPT !.closed = <<>>, !.opens = <<>>]
        s1 == pm_check_and_sync(s0, dry_run, in_.ev, alloc_capital)
        alloc == pm_get_regime_alloc(s1.current_regime, TRUE)
    IN  IF s0.current_regime = "EXTREME" THEN s1
        ELSE IF s1.current_price = 0 THEN s1
        ELSE pm_open_if(pm_open_if(s1, "LONG", alloc[1], alloc_capital, dry_run,
                                   in_.out_long),
                        "SHORT", alloc[2], alloc_capital, dry_run, in_.out_short)

-----------------------------------------------------------------------------
(* PortfolioManager.start: one pass of the loop, in three stretches         *)
(*   "top"     ping, halted test, kill switches, capital update             *)
(*   "slots"   slot.run_cycle() for each Slot in turn                       *)
(*   "persist" save_state, write_status, and the except handler             *)
(* A break leaves the loop through _shutdown, which saves the state.        *)

\* bound: the number of Slots
NumSlots == 2
\* bound: Deals a Slot opens
MaxSlotDeals == 3
ERROR_LIMIT == 3
KILL_LOSS_PCT == 25
InitialEquity == 1000
EquityLevels == {1000, 800, 750}
\* equal scanner scores: every Slot gets the same share
SLOT_ALLOC_PCT == 100 \div NumSlots

NewSlot ==
    [long_deal |-> <<>>, short_deal |-> <<>>, deal_counter |-> 0,
     current_regime |-> "UNKNOWN", current_price |-> 0,
     current_tp_pct |-> TP_PCT, current_dev_pct |-> DEVIATION_PCT,
     closed |-> <<>>,      \* closed: the Deals the last run_cycle closed
     opens |-> <<>>,       \* opens: the open_deal calls of the last run_cycle
     fetched |-> <<>>]     \* fetched: the price and regime its klines gave

\* the CoinSlot load_state constructs, with the history of slot
NewSlotLike(slot) ==
    [NewSlot EXCEPT !.closed = slot.closed, !.opens = slot.opens,
                    !.fetched = slot.fetched]

\* CoinSlot.to_state_dict: the keys load_from_state reads back into fields the
\* model has.  A Deal is written by LiveDeal.to_dict (aster_trader), which
\* is not part of this source tree: the Deal is carried as it is.
to_state_dict(slot) ==
    [long_deal |-> slot.long_deal, short_deal |-> slot.short_deal,
     deal_counter |-> slot.deal_counter,
     current_regime |-> slot.current_regime,
     current_price |-> slot.current_price,
     current_tp_pct |-> slot.current_tp_pct,
     current_dev_pct |-> slot.current_dev_pct]

\* mutant of load_from_state: the counter is not read back
load_from_state_fresh_counter(slot, s) ==
    [slot EXCEPT !.long_deal = s.long_deal, !.short_deal = s.short_deal,
                 !.deal_counter = 0,
                 !.current_regime = s.current_regime,
                 !.current_price = s.current_price,
                 !.current_tp_pct = s.current_tp_pct,
                 !.current_dev_pct = s.current_dev_pct]

\* CoinSlot.load_from_state, on the new CoinSlot load_state builds; closed,
\* opens and fetched, being history, are kept
load_from_state(slot, s) ==
    [slot EXCEPT !.long_deal = s.long_deal, !.short_deal = s.short_deal,
                 !.deal_counter = s.deal_counter,
                 !.current_regime = s.current_regime,
                 !.current_price = s.current_price,
                 !.current_tp_pct = s.current_tp_pct,
                 !.current_dev_pct = s.current_dev_pct]

\* what save_state writes and load_state reads back.  The Slots' dicts
\* are not kept in pm_disk: the loop is left through _shutdown, which
\* writes the Slots as they are, so a later start reads back
\* to_state_dict of the Slots this process ended with (the exits that
\* miss _shutdown are in the loop model further down).
pm_state_dict == [total_capital |-> pm_total_capital, halted |-> pm_halted]

\* mutant of pm_load_halted: the flag is not read back
pm_load_halted_dropped(s) == FALSE

\* load_state: self.halted = s.get("halted", False)
pm_load_halted(s) == s.halted

\* _get_equity: the configured capital in a dry run, else the gateway's answer
get_equity(dry_run, total_capital, eq) == IF dry_run THEN total_capital ELSE eq

\* _check_kill_switches: loss_pct >= 25
kill_switch_trips(total_capital, equity) ==
    /\ total_capital > 0
    /\ (total_capital - equity) * 100 >= KILL_LOSS_PCT * total_capital

\* _trigger_halt followed by break and _shutdown
PmHaltAndShutdown ==
    /\ pm_halted' = TRUE
    /\ pm_slots' = [i \in DOMAIN pm_slots |-> close_all(pm_slots[i])]
    /\ pm_disk' = <<[total_capital |-> pm_total_capital', halted |-> TRUE]>>
    /\ pm_pc' = "off"

PmStart(eq) ==
    /\ mode = "pm" /\ pm_pc = "off"
    /\ (pm_dry_run \/ pm_disk = <<>>) => eq = InitialEquity
    /\ pm_halted' = IF pm_disk = <<>> THEN FALSE ELSE pm_load_halted(pm_disk[1])
    /\ pm_slots' = IF pm_disk = <<>> THEN pm_slots
                   ELSE [i \in DOMAIN pm_slots |->
                           load_from_state(NewSlotLike(pm_slots[i]),
                                           to_state_dict(pm_slots[i]))]
    /\ pm_total_capital' =
          get_equity(pm_dry_run,
                     IF pm_disk = <<>> THEN InitialEquity
                     ELSE pm_disk[1].total_capital, eq)
    /\ pm_initial_capital' = pm_total_capital'
    /\ pm_consecutive_errors' = 0
    /\ pm_equity' = 0
    /\ pm_exc_run' = 0
    /\ pm_ping_run' = 0
    /\ pm_pc' = "top"
    /\ UNCHANGED <<mode, run_vars, ext_vars, lt_vars, bt_vars, pp_vars, pm_dry_run, pm_env, pm_idx, pm_disk>>

PmCycleTop(ping_ok, eq) ==
    /\ mode = "pm" /\ pm_pc = "top"
    /\ pm_dry_run => ping_ok /\ eq = InitialEquity
    /\ IF ~pm_dry_run /\ ~ping_ok
       THEN /\ pm_consecutive_errors' = pm_consecutive_errors + 1
            /\ pm_ping_run' = Min(pm_ping_run + 1, ERROR_LIMIT)
            /\ pm_total_capital' = pm_total_capital
            /\ pm_equity' = pm_equity
            /\ IF pm_consecutive_errors' >= ERROR_LIMIT
               THEN PmHaltAndShutdown
               ELSE UNCHANGED <<pm_halted, pm_slots, pm_disk, pm_pc>>
            /\ UNCHANGED pm_idx
       ELSE /\ pm_consecutive_errors' = 0
            /\ pm_ping_run' = 0
            /\ IF pm_halted
               THEN /\ pm_disk' = <<pm_state_dict>>
                    /\ pm_pc' = "off"
                    /\ UNCHANGED <<pm_halted, pm_slots, pm_total_capital,
                                   pm_equity, pm_idx>>
               ELSE \E equity \in {get_equity(pm_dry_run, pm_total_capital, eq)} :
                    /\ pm_equity' = equity
                    /\ IF kill_switch_trips(pm_total_capital, equity)
                       THEN /\ pm_total_capital' = pm_total_capital
                            /\ PmHaltAndShutdown
                            /\ UNCHANGED pm_idx
                       ELSE /\ pm_total_capital' =
                                  IF equity > 0 THEN equity ELSE pm_total_capital
                            /\ pm_pc' = "slots"
                            /\ pm_idx' = 1
                            /\ UNCHANGED <<pm_halted, pm_slots, pm_disk>>
    /\ UNCHANGED <<mode, run_vars, ext_vars, lt_vars, bt_vars, pp_vars, pm_dry_run, pm_env, pm_initial_capital,
                   pm_exc_run>>

\* one iteration of "for sym, slot in list(self.slots.items())"
PmSlotCycle(in_) ==
    /\ mode = "pm" /\ pm_pc = "slots"
    /\ pm_dry_run => in_.ev = "quiet" /\ in_.out_long = "filled"
                     /\ in_.out_short = "filled"
    /\ \E slot \in {slot_run_cycle(pm_slots[pm_idx], pm_dry_run, in_,
                       pm_alloc_capital(pm_total_capital, SLOT_ALLOC_PCT))} :
          /\ pm_slots' = [pm_slots EXCEPT ![pm_idx] = slot]
          /\ slot.deal_counter <= MaxSlotDeals
    /\ IF pm_idx < Len(pm_slots)
       THEN pm_idx' = pm_idx + 1 /\ pm_pc' = "slots"
       ELSE pm_idx' = pm_idx /\ pm_pc' = "persist"
    /\ UNCHANGED <<mode, run_vars, ext_vars, lt_vars, bt_vars, pp_vars, pm_dry_run, pm_env, pm_total_capital,
                   pm_halted, pm_consecutive_errors, pm_disk,
                   pm_initial_capital, pm_equity, pm_exc_run, pm_ping_run>>

\* save_state and write_status; exc: write_status raises, and the loop's
\* "except Exception" handler runs
PmCycleEnd(exc) ==
    /\ mode = "pm" /\ pm_pc = "persist"
    /\ IF exc
       THEN /\ pm_consecutive_errors' = pm_consecutive_errors + 1
            /\ pm_exc_run' = Min(pm_exc_run + 1, ERROR_LIMIT)
            /\ IF pm_consecutive_errors' >= ERROR_LIMIT
               THEN PmHaltAndShutdown
               ELSE /\ pm_disk' = <<pm_state_dict>>
                    /\ pm_pc' = "top"
                    /\ UNCHANGED <<pm_halted, pm_slots>>
       ELSE /\ pm_disk' = <<pm_state_dict>>
            /\ pm_pc' = "top"
            /\ pm_exc_run' = 0
            /\ UNCHANGED <<pm_halted, pm_slots, pm_consecutive_errors>>
    /\ UNCHANGED <<mode, run_vars, ext_vars, lt_vars, bt_vars, pp_vars, pm_dry_run, pm_env, pm_total_capital, pm_idx,
                   pm_initial_capital, pm_equity, pm_ping_run>>

\* stop() or KeyboardInterrupt: the loop ends and _shutdown saves the state
PmStop ==
    /\ mode = "pm" /\ pm_pc = "top"
    /\ pm_disk' = <<pm_state_dict>>
    /\ pm_pc' = "off"
    /\ UNCHANGED <<mode, run_vars, ext_vars, lt_vars, bt_vars, pp_vars, pm_dry_run, pm_env, pm_slots,
                   pm_total_capital, pm_halted, pm_consecutive_errors, pm_idx,
                   pm_initial_capital, pm_equity, pm_exc_run, pm_ping_run>>

PmPrices == {9400, 9600, 10000, 10200}
PmLivePrices == {10000}
PmRegimes == {"TRENDING", "EXTREME"}
LiveEvents == {"quiet", "tp_long", "tp_short", "so_long", "so_short",
               "flat", "pos_long", "pos_short"}
OpenOutcomes == {"filled", "nofill", "exception"}
SlotInputs ==
    [fetch : {"ok", "short", "error"}, price : PmPrices, regime : PmRegimes, ev : LiveEvents,
     out_long : OpenOutcomes, out_short : OpenOutcomes]

PmInit ==
    /\ \E run \in (IF mode = "pm"
                    THEN {<<TRUE, "calm">>, <<FALSE, "calm">>, <<FALSE, "rough">>}
                    ELSE {<<TRUE, "calm">>}) :
          pm_dry_run = run[1] /\ pm_env = run[2]
    /\ pm_slots = [i \in 1..(IF pm_env = "rough" THEN NumSlots ELSE 1) |-> NewSlot]
    /\ pm_total_capital = InitialEquity
    /\ pm_halted = FALSE
    /\ pm_consecutive_errors = 0
    /\ pm_pc = "off"
    /\ pm_idx = 1
    /\ pm_disk = <<>>
    /\ pm_initial_capital = InitialEquity
    /\ pm_equity = 0
    /\ pm_exc_run = 0
    /\ pm_ping_run = 0

\* A calm run has one Slot, which sees every input (a fetch of too few bars
\* in a live run and with two of the events only), a gateway that answers
\* pings, a steady equity and no failing write_status; a rough run has
\* NumSlots Slots in a quiet market and all of those failures.
CalmSlotInput(in_) ==
    /\ (~pm_dry_run => in_.price \in PmLivePrices)
    /\ (in_.fetch # "ok" => in_.price = 10000 /\ in_.regime = "TRENDING")
    /\ (in_.fetch = "short" => /\ ~pm_dry_run
                                /\ in_.ev \in {"quiet", "tp_long"}
                                /\ in_.out_short = "filled")
RoughSlotInput(in_) ==
    /\ in_.fetch = "ok" /\ in_.price = 10000 /\ in_.ev = "quiet"
    /\ in_.out_long = "filled" /\ in_.out_short = "filled"

PmNext ==
    \/ \E eq \in EquityLevels :
          /\ (pm_env = "calm" => eq = InitialEquity)
          /\ PmStart(eq)
    \/ \E ping_ok \in BOOLEAN, eq \in EquityLevels :
          /\ (pm_env = "calm" => ping_ok /\ eq = InitialEquity)
          /\ PmCycleTop(ping_ok, eq)
    \/ \E in_ \in Inputs("pm", SlotInputs) :
          /\ IF pm_env = "calm" THEN CalmSlotInput(in_) ELSE RoughSlotInput(in_)
          /\ PmSlotCycle(in_)
    \/ \E exc \in BOOLEAN :
          /\ (pm_env = "calm" => ~exc)
          /\ PmCycleEnd(exc)
    \/ PmStop

-----------------------------------------------------------------------------
(* Single-instrument engine: LiveTrader (live_trader.py) and PaperTrader    *)
(* (paper_trader.py).  Units as for the backtest.  The trader's fields are  *)
(* the record lt; its Deals have the shape of the backtest's Deal, with     *)
(* LiveDeal's pending_so_ids and tp_order_id in addition.  tp_order is      *)
(* <<>> when no take-profit order is open at the exchange, else <<[price]>>.*)
(* equity_history is kept as what the two checks read from it: the peak,    *)
(* the last record, and the first record and number of records of the       *)
(* last recorded day.  The clock counts half days.                          *)

max_drawdown_pct == 25                  \* percent
DAILY_LOSS_PCT == 15                    \* percent
DAILY_PAUSE_HOURS == 24
TickHours == 6 + 6                      \* one tick of the clock
lt_initial_capital == 10 * base_order_size

\* bounds: the clock, the Deals one run opens, consecutive_errors
MaxNow == 3
MaxLtDeals == 2
MaxErrors == 4

LtDeal(deal_id, order) ==
    [deal_id |-> deal_id, direction |-> "LONG", base_order |-> order,
     safety_orders |-> <<>>, pending_so_ids |-> <<>>, tp_order |-> <<>>,
     close_price |-> 0, close_fee |-> 0]

\* LiveDeal.realized_pnl (PaperDeal.realized_pnl is the same expression)
realized_pnl(d) ==
    IF d.close_price = 0 THEN 0
    ELSE Notional(total_qty(d), d.close_price) - d.close_fee - total_invested(d)
         - (total_fees(d) - d.close_fee)

\* kill_reasons is history: the reason arguments _trigger_kill_switch got
_trigger_kill_switch(st, reason) ==
    [st EXCEPT !.circuit_breaker_triggered = TRUE,
               !.kill_reasons = @ \cup {reason}]

\* the except branch shared by _place_limit_buy and _place_limit_sell
lt_order_error(st) ==
    LET s1 == [st EXCEPT !.consecutive_errors = @ + 1]
    IN  IF s1.consecutive_errors >= ERROR_LIMIT
        THEN _trigger_kill_switch(s1, "errors") ELSE s1

\* _place_limit_buy / _place_limit_sell: the state after the call
place_limit(st, place_ok) ==
    IF place_ok THEN [st EXCEPT !.consecutive_errors = 0] ELSE lt_order_error(st)

RECURSIVE lt_place_sos(_, _, _, _, _)
\* "Place safety orders": st and the pending orders collected so far
lt_place_sos(st, pending, price, i, place_ok) ==
    IF i > max_safety_orders \/ st.cash < so_size(i) THEN [st |-> st, pending |-> pending]
    ELSE LET so_price == (price * (Pct100 - so_deviation(i))) \div Pct100
             so_fee == fee_of(so_size(i))
             so_qty_ == ((so_size(i) - so_fee) * QtyUnit) \div so_price
         IN  lt_place_sos(place_limit(st, place_ok),
                          IF place_ok
                          THEN Append(pending, [so_index |-> i, price |-> so_price,
                                                qty |-> so_qty_])
                          ELSE pending,
                          price, i + 1, place_ok)

\* "if result is None: self.deal_counter -= 1; return"
lt_open_failed(st) == [st EXCEPT !.deal_counter = @ - 1]

\* LiveTrader._open_new_deal
_open_new_deal(st, price, place_ok) ==
    LET s1 == [st EXCEPT !.deal_counter = @ + 1]
        bo_size == base_order_size
        fee == fee_of(bo_size)
        qty == ((bo_size - fee) * QtyUnit) \div price
        s2 == place_limit(s1, place_ok)
    IN  IF ~place_ok THEN lt_open_failed(s2)
        ELSE LET s3 == [s2 EXCEPT !.cash = @ - bo_size]
                 r == lt_place_sos(s3, <<>>, price, 1, place_ok)
                 tp_price == (price * (Pct100 + take_profit_pct)) \div Pct100
                 s4 == place_limit(r.st, place_ok)
                 deal == [LtDeal(s1.deal_counter,
                                 [price |-> price, size_usd |-> bo_size,
                                  qty |-> qty, fee |-> fee])
                          EXCEPT !.pending_so_ids = r.pending,
                                 !.tp_order = <<[price |-> tp_price]>>]
             IN  [s4 EXCEPT !.open_deals = Append(@, deal)]

lt_replace(open, deal) ==
    [i \in DOMAIN open |-> IF open[i].deal_id = deal.deal_id THEN deal ELSE open[i]]

\* LiveTrader._update_tp_order: st and the Deal afterwards.  When the new
\* order is refused the old one stays cancelled: no take-profit is open.
_update_tp_order(st, deal, place_ok) ==
    LET tp_price == (avg_entry(deal) * (Pct100 + take_profit_pct)) \div Pct100
    IN  [st |-> place_limit(st, place_ok),
         deal |-> [deal EXCEPT !.tp_order =
                      IF place_ok THEN <<[price |-> tp_price]>> ELSE <<>>]]

\* LiveTrader._close_deal
_close_deal(st, deal) ==
    LET sell_price == deal.tp_order[1].price
        fee == fee_of(Notional(total_qty(deal), sell_price))
        revenue == Notional(total_qty(deal), sell_price) - fee
        d1 == [deal EXCEPT !.close_price = sell_price, !.close_fee = fee,
                           !.pending_so_ids = <<>>, !.tp_order = <<>>]
    IN  [st EXCEPT !.cash = @ + revenue,
                   !.open_deals = SelectSeq(@, LAMBDA d : d.deal_id # deal.deal_id),
                   !.closed_deals = Append(@, d1)]

RECURSIVE lt_check_sos(_, _, _, _, _)
\* "Check safety orders": a resting buy is reported closed once the price
\* has come down to it
lt_check_sos(st, deal, todo, price, place_ok) ==
    IF todo = <<>> THEN [st |-> st, deal |-> deal]
    ELSE LET o == Head(todo)
         IN  IF price <= o.price
             THEN LET filled_cost == Notional(o.qty, o.price)
                      fee == fee_of(filled_cost)
                      d1 == [deal EXCEPT
                               !.safety_orders = Append(@,
                                   [price |-> o.price, size_usd |-> filled_cost,
                                    qty |-> o.qty, fee |-> fee]),
                               !.pending_so_ids =
                                   SelectSeq(@, LAMBDA x : x.so_index # o.so_index)]
                      r == _update_tp_order([st EXCEPT !.cash = @ - filled_cost],
                                            d1, place_ok)
                  IN  lt_check_sos(r.st, r.deal, Tail(todo), price, place_ok)
             ELSE lt_check_sos(st, deal, Tail(todo), price, place_ok)

\* LiveTrader._check_deal_orders
_check_deal_orders(st, deal, price, place_ok) ==
    LET r == lt_check_sos(st, deal, deal.pending_so_ids, price, place_ok)
        s1 == [r.st EXCEPT !.open_deals = lt_replace(@, r.deal)]
    IN  IF r.deal.tp_order # <<>> /\ price >= r.deal.tp_order[1].price
        THEN _close_deal(s1, r.deal)
        ELSE s1

RECURSIVE lt_check_all(_, _, _, _)
\* "for deal in list(self.open_deals): self._check_deal_orders(deal)"
lt_check_all(st, deals, price, place_ok) ==
    IF deals = <<>> THEN st
    ELSE lt_check_all(_check_deal_orders(st, Head(deals), price, place_ok),
                      Tail(deals), price, place_ok)

Today(now) == (now * TickHours) \div DAILY_PAUSE_HOURS

\* the records of equity_history that _check_daily_loss selects
today_equity_n(hist, now) == IF hist.day = Today(now) THEN hist.day_n ELSE 0

\* LiveTrader._check_circuit_breaker / PaperTrader._check_circuit_breaker
_check_circuit_breaker(st) ==
    IF st.hist.day_n = 0 THEN st
    ELSE IF /\ st.hist.peak > 0
            /\ (st.hist.peak - st.hist.last) * 100 >= max_drawdown_pct * st.hist.peak
         THEN _trigger_kill_switch(st, "drawdown")
         ELSE st

\* "if loss_pct > 15": the pause is set and the kill switch is triggered
lt_daily_pause(st, now) ==
    _trigger_kill_switch(
        [st EXCEPT !.daily_pause_until = <<now + DAILY_PAUSE_HOURS \div TickHours>>],
        "daily")

\* LiveTrader._check_daily_loss: st and the value returned
_check_daily_loss(st, now) ==
    IF st.daily_pause_until # <<>> /\ now < st.daily_pause_until[1]
    THEN [st |-> st, paused |-> TRUE]
    ELSE LET s1 == [st EXCEPT !.daily_pause_until = <<>>]
         IN  IF today_equity_n(s1.hist, now) < 2 THEN [st |-> s1, paused |-> FALSE]
             ELSE IF /\ s1.hist.day_start > 0
                     /\ (s1.hist.day_start - s1.hist.last) * 100
                            > DAILY_LOSS_PCT * s1.hist.day_start
                  THEN [st |-> lt_daily_pause(s1, now), paused |-> TRUE]
                  ELSE [st |-> s1, paused |-> FALSE]

\* _is_regime_friendly; PaperTrader tests "friendly is True" as well
_is_regime_friendly(regime) == regime \in {"ACCUMULATION", "CHOPPY", "RANGING"}

RECURSIVE lt_open_value(_, _)
lt_open_value(deals, price) ==
    IF deals = <<>> THEN 0
    ELSE Notional(total_qty(Head(deals)), price) + lt_open_value(Tail(deals), price)

_calc_equity(st, price) == st.cash + lt_open_value(st.open_deals, price)

\* _record_equity: the record is appended to equity_history
_record_equity(st, price, now) ==
    LET equity == _calc_equity(st, price)
        h == st.hist
    IN  [st EXCEPT !.hist =
            [peak |-> IF h.day_n = 0 THEN equity ELSE Max(h.peak, equity),
             last |-> equity,
             day |-> Today(now),
             day_start |-> IF h.day_n > 0 /\ h.day = Today(now)
                           THEN h.day_start ELSE equity,
             day_n |-> IF h.day_n > 0 /\ h.day = Today(now)
                       THEN Min(h.day_n + 1, 2) ELSE 1]]

\* PaperTrader._close_deal
pt_close_deal(st, deal, price) ==
    LET sell_price == fill_price(price, "sell")
        fee == fee_of(Notional(total_qty(deal), sell_price))
        revenue == Notional(total_qty(deal), sell_price) - fee
        d1 == [deal EXCEPT !.close_price = sell_price, !.close_fee = fee]
    IN  [st EXCEPT !.cash = @ + revenue,
                   !.open_deals = SelectSeq(@, LAMBDA d : d.deal_id # deal.deal_id),
                   !.closed_deals = Append(@, d1)]

\* PaperTrader._process_candle, for one Deal (trailing_tp_pct is None)
pt_process_deal(st, deal, high, low) ==
    LET next_so == so_count(deal) + 1
        so_trigger == (deal.base_order.price * (Pct100 - so_deviation(next_so)))
                          \div Pct100
        fills == /\ so_count(deal) < max_safety_orders
                 /\ low <= so_trigger
                 /\ st.cash >= so_size(next_so)
        d1 == IF fills
              THEN [deal EXCEPT !.safety_orders =
                        Append(@, make_order(so_trigger, so_size(next_so), "buy"))]
              ELSE deal
        s1 == IF fills
              THEN [st EXCEPT !.cash = @ - so_size(next_so),
                              !.open_deals = lt_replace(@, d1)]
              ELSE st
        tp_price == (avg_entry(d1) * (Pct100 + take_profit_pct)) \div Pct100
    IN  IF high >= tp_price THEN pt_close_deal(s1, d1, tp_price) ELSE s1

RECURSIVE _process_candle(_, _, _, _)
_process_candle(st, deals, high, low) ==
    IF deals = <<>> THEN st
    ELSE _process_candle(pt_process_deal(st, Head(deals), high, low),
                         Tail(deals), high, low)

\* PaperTrader._open_new_deal
pt_open_new_deal(st, price) ==
    LET s1 == [st EXCEPT !.deal_counter = @ + 1]
        order == make_order(price, base_order_size, "buy")
    IN  [s1 EXCEPT !.open_deals = Append(@, LtDeal(s1.deal_counter, order)),
                   !.cash = @ - base_order_size]

\* the state __init__ builds before load_state
lt_fresh ==
    [cash |-> lt_initial_capital, open_deals |-> <<>>, closed_deals |-> <<>>,
     deal_counter |-> 0, consecutive_errors |-> 0,
     circuit_breaker_triggered |-> FALSE, daily_pause_until |-> <<>>,
     hist |-> [peak |-> 0, last |-> 0, day |-> 0, day_start |-> 0, day_n |-> 0],
     kill_reasons |-> {}]

\* save_state: the dict written to state.json
\* LiveDeal.to_dict (live_trader.py); PaperDeal.to_dict writes the same
\* keys without pending_so_ids and tp_order_id, which a PaperDeal never has
lt_deal_to_dict(d) ==
    IF lt_kind = "live"
    THEN [deal_id |-> d.deal_id, base_order |-> d.base_order,
          safety_orders |-> d.safety_orders,
          pending_so_ids |-> d.pending_so_ids, tp_order_id |-> d.tp_order,
          close_price |-> d.close_price, close_fee |-> d.close_fee]
    ELSE [deal_id |-> d.deal_id, base_order |-> d.base_order,
          safety_orders |-> d.safety_orders,
          close_price |-> d.close_price, close_fee |-> d.close_fee]

\* mutant of lt_deal_from_dict: the fills after the base order are not
\* read back
lt_deal_from_dict_base_only(x) ==
    [LtDeal(x.deal_id, x.base_order) EXCEPT
        !.close_price = x.close_price, !.close_fee = x.close_fee]

\* LiveDeal.from_dict / PaperDeal.from_dict: the constructor, with the
\* keys of the dict
lt_deal_from_dict(x) ==
    IF "pending_so_ids" \in DOMAIN x
    THEN [LtDeal(x.deal_id, x.base_order) EXCEPT
            !.safety_orders = x.safety_orders,
            !.pending_so_ids = x.pending_so_ids, !.tp_order = x.tp_order_id,
            !.close_price = x.close_price, !.close_fee = x.close_fee]
    ELSE [LtDeal(x.deal_id, x.base_order) EXCEPT
            !.safety_orders = x.safety_orders,
            !.close_price = x.close_price, !.close_fee = x.close_fee]

lt_state_dict(st) ==
    [cash |-> st.cash, deal_counter |-> st.deal_counter,
     open_deals |-> [i \in 1..Len(st.open_deals) |->
                       lt_deal_to_dict(st.open_deals[i])],
     closed_deals |-> [i \in 1..Len(st.closed_deals) |->
                         lt_deal_to_dict(st.closed_deals[i])],
     equity_history |-> st.hist,
     circuit_breaker_triggered |-> st.circuit_breaker_triggered,
     daily_pause_until |-> st.daily_pause_until]

\* mutant of lt_load_breaker: the flag is not read back
lt_load_breaker_dropped(state) == FALSE

\* load_state: state.get("circuit_breaker_triggered", False)
lt_load_breaker(state) == state.circuit_breaker_triggered

\* __init__ followed by load_state; kill_reasons, being history, is kept
lt_load_state(st, disk) ==
    IF disk = <<>> THEN [lt_fresh EXCEPT !.kill_reasons = st.kill_reasons]
    ELSE [lt_fresh EXCEPT
            !.cash = disk[1].cash, !.deal_counter = disk[1].deal_counter,
            !.open_deals = [i \in 1..Len(disk[1].open_deals) |->
                              lt_deal_from_dict(disk[1].open_deals[i])],
            !.closed_deals = [i \in 1..Len(disk[1].closed_deals) |->
                                lt_deal_from_dict(disk[1].closed_deals[i])],
            !.hist = disk[1].equity_history,
            !.circuit_breaker_triggered = lt_load_breaker(disk[1]),
            !.daily_pause_until = disk[1].daily_pause_until,
            !.kill_reasons = st.kill_reasons]

\* the loop's "except Exception" branch of LiveTrader.start
lt_loop_error(st) ==
    LET s1 == [st EXCEPT !.consecutive_errors = @ + 1]
    IN  IF s1.consecutive_errors >= ERROR_LIMIT
        THEN _trigger_kill_switch(s1, "errors") ELSE s1

lt_books(st) ==
    [cash |-> st.cash, deal_counter |-> st.deal_counter,
     open_deals |-> Len(st.open_deals)]

NoTrace ==
    [fetch |-> "none", cb_before |-> FALSE, paused |-> FALSE, eligible |-> FALSE,
     can_trade |-> FALSE, place_ok |-> TRUE,
     before |-> lt_books(lt_fresh), after |-> lt_books(lt_fresh)]

\* the try block of one pass of the loop of LiveTrader.start, after a fetch
\* that returned candles, as a function of the trader's state: the state
\* after the checks (s2), after the new-Deal decision (s3) and after
\* _record_equity (s4); LtLiveCycle below takes the same steps
lt_live_pass(st, in_, now) ==
    LET s1 == lt_check_all([st EXCEPT !.consecutive_errors = 0],
                           st.open_deals, in_.price, in_.place_ok)
        r == _check_daily_loss(s1, now)
        s2 == _check_circuit_breaker(r.st)
        eligible == /\ _is_regime_friendly(in_.regime)
                    /\ Len(s2.open_deals) < max_active_deals
                    /\ s2.cash >= base_order_size
        can_trade == /\ ~s2.circuit_breaker_triggered
                     /\ ~r.paused
                     /\ eligible
        s3 == IF can_trade THEN _open_new_deal(s2, in_.price, in_.place_ok)
              ELSE s2
    IN  [s2 |-> s2, s3 |-> s3, s4 |-> _record_equity(s3, in_.price, now),
         paused |-> r.paused, eligible |-> eligible, can_trade |-> can_trade]

\* one pass of the loop of PaperTrader.start after a fetch that returned
\* candles, for its one symbol; the candle is flat
\* (high = low = close)
lt_paper_pass(st, in_, now) ==
    LET s1 == _process_candle(st, st.open_deals, in_.price, in_.price)
        eligible == /\ _is_regime_friendly(in_.regime)
                    /\ Len(s1.open_deals) < max_active_deals
                    /\ s1.cash >= base_order_size
        can_trade == ~s1.circuit_breaker_triggered /\ eligible
        s2 == IF can_trade THEN pt_open_new_deal(s1, in_.price) ELSE s1
    IN  [s1 |-> s1, s2 |-> s2,
         s4 |-> _check_circuit_breaker(_record_equity(s2, in_.price, now)),
         eligible |-> eligible, can_trade |-> can_trade]

\* one pass of the loop of LiveTrader.start.  in_.exc: _record_equity
\* raises after it has appended the record (equity.csv cannot be written)
LtLiveCycle(in_) ==
    /\ mode = "lt" /\ lt_kind = "live" /\ lt_up
    /\ lt_now + in_.dt <= MaxNow
    /\ lt_now' = lt_now + in_.dt
    /\ IF in_.fetch = "raise"
       THEN /\ lt' = lt_loop_error(lt)
            /\ lt'.consecutive_errors <= MaxErrors
            /\ lt_fail_run' = Min(lt_fail_run + 1, ERROR_LIMIT)
            /\ lt_trace' = [NoTrace EXCEPT !.fetch = "raise"]
            /\ UNCHANGED <<lt_price, lt_regime, lt_disk>>
       ELSE IF in_.fetch = "empty"
       THEN /\ lt_trace' = [NoTrace EXCEPT !.fetch = "empty"]
            /\ UNCHANGED <<lt, lt_price, lt_regime, lt_disk, lt_fail_run>>
       ELSE /\ lt_price' = in_.price
            /\ lt_regime' = in_.regime
            /\ \E s1 \in {lt_check_all([lt EXCEPT !.consecutive_errors = 0],
                                       lt.open_deals, in_.price, in_.place_ok)} :
               \E r \in {_check_daily_loss(s1, lt_now')} :
               \E s2 \in {_check_circuit_breaker(r.st)} :
               \E eligible \in {/\ _is_regime_friendly(in_.regime)
                                /\ Len(s2.open_deals) < max_active_deals
                                /\ s2.cash >= base_order_size} :
               \E can_trade \in {/\ ~s2.circuit_breaker_triggered
                                 /\ ~r.paused
                                 /\ eligible} :
               \E s3 \in {IF can_trade
                          THEN _open_new_deal(s2, in_.price, in_.place_ok)
                          ELSE s2} :
               \E s4 \in {_record_equity(s3, in_.price, lt_now')} :
                  /\ s4.deal_counter <= MaxLtDeals
                  /\ lt' = IF in_.exc THEN lt_loop_error(s4) ELSE s4
                  /\ lt_disk' = IF in_.exc THEN lt_disk ELSE <<lt_state_dict(s4)>>
                  /\ lt_trace' = [fetch |-> "ok",
                                  cb_before |-> lt.circuit_breaker_triggered,
                                  paused |-> r.paused, eligible |-> eligible,
                                  can_trade |-> can_trade, place_ok |-> in_.place_ok,
                                  before |-> lt_books(s2), after |-> lt_books(s3)]
            /\ lt_fail_run' = IF in_.exc THEN Min(lt_fail_run + 1, ERROR_LIMIT) ELSE 0
    /\ UNCHANGED <<mode, run_vars, ext_vars, bt_vars, pp_vars, pm_vars, lt_kind, lt_env, lt_up>>

\* one pass of the loop of PaperTrader.start, for its one symbol; the
\* candle is flat (high = low = close)
LtPaperCycle(in_) ==
    /\ mode = "lt" /\ lt_kind = "paper" /\ lt_up
    /\ in_.place_ok /\ in_.dt = 0
    /\ IF in_.fetch = "raise"
       THEN /\ lt_trace' = [NoTrace EXCEPT !.fetch = "raise"]
            /\ lt_fail_run' = Min(lt_fail_run + 1, ERROR_LIMIT)
            /\ UNCHANGED <<lt, lt_price, lt_regime, lt_disk>>
       ELSE /\ lt_price' = IF in_.fetch = "ok" THEN in_.price ELSE lt_price
            /\ lt_regime' = IF in_.fetch = "ok" THEN in_.regime ELSE lt_regime
            /\ \E s1 \in {IF in_.fetch = "ok"
                          THEN _process_candle(lt, lt.open_deals, in_.price, in_.price)
                          ELSE lt} :
               \E eligible \in {/\ _is_regime_friendly(in_.regime)
                                /\ Len(s1.open_deals) < max_active_deals
                                /\ s1.cash >= base_order_size} :
               \E can_trade \in {/\ in_.fetch = "ok"
                                 /\ ~s1.circuit_breaker_triggered
                                 /\ eligible} :
               \E s2 \in {IF can_trade THEN pt_open_new_deal(s1, in_.price) ELSE s1} :
               \E s3 \in {_record_equity(s2, lt_price', lt_now)} :
               \E s4 \in {IF in_.exc THEN s3 ELSE _check_circuit_breaker(s3)} :
                  /\ s4.deal_counter <= MaxLtDeals
                  /\ lt' = s4
                  /\ lt_disk' = IF in_.exc THEN lt_disk ELSE <<lt_state_dict(s4)>>
                  /\ lt_trace' = [fetch |-> in_.fetch,
                                  cb_before |-> lt.circuit_breaker_triggered,
                                  paused |-> FALSE, eligible |-> eligible,
                                  can_trade |-> can_trade, place_ok |-> TRUE,
                                  before |-> lt_books(s1), after |-> lt_books(s2)]
            /\ lt_fail_run' = IF in_.exc THEN Min(lt_fail_run + 1, ERROR_LIMIT) ELSE 0
    /\ UNCHANGED <<mode, run_vars, ext_vars, bt_vars, pp_vars, pm_vars, lt_kind, lt_env, lt_up, lt_now>>

\* stop() or KeyboardInterrupt: the loop ends and save_state runs
LtStop ==
    /\ mode = "lt" /\ lt_up
    /\ lt_up' = FALSE
    /\ lt_disk' = <<lt_state_dict(lt)>>
    /\ lt_trace' = NoTrace
    /\ UNCHANGED <<mode, run_vars, ext_vars, bt_vars, pp_vars, pm_vars, lt_kind, lt_env, lt, lt_price,
                   lt_regime, lt_now, lt_fail_run>>

\* a new process: __init__ (which calls load_state), then start()
LtStart ==
    /\ mode = "lt" /\ ~lt_up
    /\ lt_up' = TRUE
    /\ lt' = lt_load_state(lt, lt_disk)
    /\ lt_fail_run' = 0
    /\ lt_trace' = NoTrace
    /\ UNCHANGED <<mode, run_vars, ext_vars, bt_vars, pp_vars, pm_vars, lt_kind, lt_env, lt_price, lt_regime,
                   lt_now, lt_disk>>

LtPrices == {5000, 8000, 10000, 10200}
LtRegimes == {"RANGING", "TRENDING"}
LtInputs ==
    [fetch : {"ok", "empty", "raise"}, price : LtPrices, regime : LtRegimes,
     place_ok : BOOLEAN, exc : BOOLEAN, dt : {0, 1}]

LtInit ==
    /\ \E run \in (IF mode = "lt"
                    THEN {"live", "paper"} \X {"market", "faults"}
                    ELSE {<<"live", "market">>}) :
          lt_kind = run[1] /\ lt_env = run[2]
    /\ lt = lt_fresh
    /\ lt_price = 0
    /\ lt_regime = "UNKNOWN"
    /\ lt_now = 0
    /\ lt_disk = <<>>
    /\ lt_up = FALSE
    /\ lt_fail_run = 0
    /\ lt_trace = NoTrace

\* A market run sees every price, regime and clock step with a gateway
\* and a disk that work; a faults run sees a steady friendly market with
\* failing fetches, refused orders and a failing equity.csv.
MarketInput(in_) ==
    in_.fetch = "ok" /\ in_.place_ok /\ ~in_.exc
FaultsInput(in_) ==
    /\ in_.price = 10000 /\ in_.regime = "RANGING" /\ in_.dt = 0
    /\ (in_.fetch # "ok" => in_.place_ok /\ ~in_.exc)

LtNext ==
    \/ \E in_ \in Inputs("lt", LtInputs) :
          /\ IF lt_env = "market" THEN MarketInput(in_) ELSE FaultsInput(in_)
          /\ LtLiveCycle(in_)
    \/ \E in_ \in Inputs("lt", LtInputs) :
          /\ IF lt_env = "market" THEN MarketInput(in_) ELSE FaultsInput(in_)
          /\ LtPaperCycle(in_)
    \/ LtStop
    \/ LtStart

-----------------------------------------------------------------------------
(* One live CoinSlot together with its gateway (portfolio_manager.py,       *)
(* dry_run False, hedge_mode False, LONG side).  The exchange is part of    *)
(* the state: gw_orders[id] is the order the exchange holds under id, with  *)
(*   kind    "SO" | "TP"                                                    *)
(*   n       SO: the ladder level; TP: the safety orders filled when placed *)
(*   pct     the deviation % (SO) or take-profit % (TP) it was priced with  *)
(*   status  "NEW" | "FILLED" | "CANCELED"                                  *)
(*   lost    history: the exchange accepted it, the reply never arrived     *)
(* A place_order call ends in one of three ways: "ok", "reject" (the call   *)
(* raises, nothing was placed) or "lost" (the call raises, the order was    *)
(* placed).  Margin is ample: _ensure_tp_margin and the margin test of the  *)
(* safety orders never cut anything.                                        *)

TP_MIN == 600
TP_MAX == 2500
TP_UPDATE_THRESHOLD == 100
ATR_BASELINE_PCT == 800
DEV_MIN == 1200
DEV_MAX == 4000
DEV_UPDATE_THRESHOLD == 150
DEV_TP_FLOOR_MULT_x10 == 15

\* REGIME_TP_MULT and REGIME_DEV_MULT, in percent
REGIME_TP_MULT(regime) ==
    CASE regime = "ACCUMULATION" -> 85
      [] regime = "CHOPPY" -> 90
      [] regime = "RANGING" -> 85
      [] regime = "DISTRIBUTION" -> 90
      [] regime = "MILD_TREND" -> 105
      [] regime = "TRENDING" -> 120
      [] regime = "EXTREME" -> 70
      [] regime = "BREAKOUT_WARNING" -> 80
      [] OTHER -> 100
REGIME_DEV_MULT(regime) ==
    CASE regime = "ACCUMULATION" -> 85
      [] regime = "CHOPPY" -> 90
      [] regime = "RANGING" -> 80
      [] regime = "DISTRIBUTION" -> 90
      [] regime = "MILD_TREND" -> 110
      [] regime = "TRENDING" -> 130
      [] regime = "EXTREME" -> 150
      [] regime = "BREAKOUT_WARNING" -> 120
      [] OTHER -> 100

\* bounds: orders the exchange ever accepts, Deals the Slot opens
MaxOrders == 5
MaxGwDeals == 2

\* mutant of _calculate_adaptive_tp: the result is not clamped
_calculate_adaptive_tp_unclamped(atr_pct, regime) ==
    IF atr_pct <= 0 THEN TP_PCT
    ELSE RoundDiv(TP_PCT * atr_pct * REGIME_TP_MULT(regime), ATR_BASELINE_PCT * 100)

\* _calculate_adaptive_tp: round(max(TP_MIN, min(TP_MAX, tp)), 3)
_calculate_adaptive_tp(atr_pct, regime) ==
    IF atr_pct <= 0 THEN TP_PCT
    ELSE Max(TP_MIN, Min(TP_MAX,
             RoundDiv(TP_PCT * atr_pct * REGIME_TP_MULT(regime),
                      ATR_BASELINE_PCT * 100)))

\* _calculate_adaptive_deviation; current_tp_pct is the Slot's field as it
\* stands when the method runs
_calculate_adaptive_deviation(atr_pct, regime, current_tp_pct) ==
    IF atr_pct <= 0 THEN DEVIATION_PCT
    ELSE LET dev == Max(DEV_MIN, Min(DEV_MAX,
                        RoundDiv(DEVIATION_PCT * atr_pct * REGIME_DEV_MULT(regime),
                                 ATR_BASELINE_PCT * 100)))
             tp_floor == RoundDiv(current_tp_pct * DEV_TP_FLOOR_MULT_x10, 10)
         IN  Min(Max(dev, tp_floor), DEV_MAX)

\* The operators below work on w = [slot, orders, position, lost_base, log].

\* api.place_order for a LIMIT order: the world afterwards and the orderId
\* returned (0: the call raised)
place_order(w, kind, n, pct, out) ==
    IF out = "reject" THEN [w |-> w, id |-> 0]
    ELSE [w |-> [w EXCEPT !.orders = Append(@,
                    [kind |-> kind, n |-> n, pct |-> pct, status |-> "NEW",
                     lost |-> out = "lost"])],
          id |-> IF out = "ok" THEN Len(w.orders) + 1 ELSE 0]

\* api.cancel_order inside "try: ... except Exception: pass"
cancel_order(w, id, cancel_ok) ==
    IF cancel_ok /\ w.orders[id].status = "NEW"
    THEN [w EXCEPT !.orders[id].status = "CANCELED"]
    ELSE w

RECURSIVE gw_cancel_each(_, _, _)
gw_cancel_each(w, ids, cancel_ok) ==
    IF ids = <<>> THEN w
    ELSE gw_cancel_each(cancel_order(w, Head(ids), cancel_ok), Tail(ids), cancel_ok)

\* CoinSlot._cancel_remaining_sos
_cancel_remaining_sos(w, cancel_ok) ==
    [gw_cancel_each(w, w.slot.deal[1].safety_order_ids, cancel_ok)
       EXCEPT !.slot.deal[1].safety_order_ids = <<>>]

RECURSIVE gw_place_sos(_, _, _)
\* the loop of _place_so_orders and _place_remaining_sos from level n on;
\* out_so "reject_once": the first place_order raises, the later ones answer
gw_place_sos(w, n, out_so) ==
    IF n > MAX_SOS THEN w
    ELSE LET r == place_order(w, "SO", n, w.slot.current_dev_pct,
                              IF out_so = "reject_once" THEN "reject" ELSE out_so)
         IN  gw_place_sos(
                IF r.id # 0
                THEN [r.w EXCEPT !.slot.deal[1].safety_order_ids = Append(@, r.id)]
                ELSE r.w,
                n + 1, IF out_so = "reject_once" THEN "ok" ELSE out_so)

\* CoinSlot._place_so_orders
_place_so_orders(w, out_so) ==
    gw_place_sos([w EXCEPT !.slot.deal[1].safety_order_ids = <<>>], 1, out_so)

\* CoinSlot._place_remaining_sos
_place_remaining_sos(w, out_so) ==
    gw_place_sos([w EXCEPT !.slot.deal[1].safety_order_ids = <<>>],
                 w.slot.deal[1].safety_orders_filled + 1, out_so)

\* one entry of gw_log
TpCall(had_sos, attempts, cancelled, alert, placed) ==
    [had_sos |-> had_sos, attempts |-> attempts, cancelled |-> cancelled,
     alert |-> alert, placed |-> placed]

\* CoinSlot._place_tp_order; io = the gateway's answers of this cycle
_place_tp_order(w, io) ==
    LET deal == w.slot.deal[1]
        had == deal.safety_order_ids # <<>>
        r1 == place_order(w, "TP", deal.safety_orders_filled,
                          w.slot.current_tp_pct, io.out_tp1)
    IN  IF r1.id # 0
        THEN [r1.w EXCEPT !.slot.deal[1].tp_order_id = r1.id,
                          !.log = Append(@, TpCall(had, 1, FALSE, FALSE, TRUE))]
        ELSE IF had
        THEN LET w2 == _cancel_remaining_sos(r1.w, io.cancel_ok)
                 r2 == place_order(w2, "TP", deal.safety_orders_filled,
                                   w.slot.current_tp_pct, io.out_tp2)
             IN  IF r2.id # 0
                 THEN [r2.w EXCEPT !.slot.deal[1].tp_order_id = r2.id,
                                   !.log = Append(@, TpCall(had, 2, TRUE, FALSE, TRUE))]
                 ELSE [r2.w EXCEPT
                         !.log = Append(@, TpCall(had, 2, TRUE, TRUE, FALSE))]
        ELSE [r1.w EXCEPT !.log = Append(@, TpCall(had, 1, FALSE, FALSE, FALSE))]

\* CoinSlot._update_tp_order
gw_update_tp_order(w, io) ==
    LET tp_id == w.slot.deal[1].tp_order_id
        w1 == IF tp_id # 0 THEN cancel_order(w, tp_id, io.cancel_ok) ELSE w
    IN  _place_tp_order([w1 EXCEPT !.slot.deal[1].tp_order_id = 0], io)

\* CoinSlot._update_so_orders_adaptive
_update_so_orders_adaptive(w, io) ==
    LET w1 == _cancel_remaining_sos(w, io.cancel_ok)
    IN  IF MAX_SOS - w1.slot.deal[1].safety_orders_filled <= 0 THEN w1
        ELSE _place_remaining_sos(w1, io.out_so)

\* CoinSlot.update_adaptive_tp
update_adaptive_tp(w, atr_pct, io) ==
    LET new_tp == _calculate_adaptive_tp(atr_pct, w.slot.current_regime)
        new_dev == _calculate_adaptive_deviation(atr_pct, w.slot.current_regime,
                                                 w.slot.current_tp_pct)
        tp_changed == IF new_tp >= w.slot.current_tp_pct
                      THEN new_tp - w.slot.current_tp_pct >= TP_UPDATE_THRESHOLD
                      ELSE w.slot.current_tp_pct - new_tp >= TP_UPDATE_THRESHOLD
        dev_changed == IF new_dev >= w.slot.current_dev_pct
                       THEN new_dev - w.slot.current_dev_pct >= DEV_UPDATE_THRESHOLD
                       ELSE w.slot.current_dev_pct - new_dev >= DEV_UPDATE_THRESHOLD
        w1 == [w EXCEPT !.slot.current_tp_pct = new_tp,
                        !.slot.current_dev_pct = new_dev]
    IN  IF w1.slot.deal = <<>> THEN w1
        ELSE LET w2 == IF tp_changed THEN gw_update_tp_order(w1, io) ELSE w1
             IN  IF dev_changed THEN _update_so_orders_adaptive(w2, io) ELSE w2

\* CoinSlot.open_deal("LONG"), live.  io.out_base is what happens to the
\* MARKET order: "filled", "nofill" (accepted, no fill within the ten polls,
\* cancelled), "reject" or "lost" (executed, the reply never arrived)
gw_open_deal(w, io) ==
    LET w1 == [w EXCEPT !.slot.deal_counter = @ + 1]
    IN  IF io.out_base = "filled"
        THEN LET w2 == [w1 EXCEPT
                          !.position = @ + 1,
                          !.slot.deal = <<[deal_id |-> w1.slot.deal_counter,
                                           safety_orders_filled |-> 0,
                                           safety_order_ids |-> <<>>,
                                           tp_order_id |-> 0]>>]
             IN  _place_tp_order(_place_so_orders(w2, io.out_so), io)
        ELSE IF io.out_base = "lost"
        THEN [w1 EXCEPT !.position = @ + 1, !.lost_base = TRUE,
                        !.slot.deal_counter = @ - 1]
        ELSE [w1 EXCEPT !.slot.deal_counter = @ - 1]

\* CoinSlot._check_orders_for_deal, live; io.query_ok: query_order answers
gw_check_orders_for_deal(w, io) ==
    IF w.slot.deal = <<>> THEN w
    ELSE LET w1 == IF w.slot.deal[1].tp_order_id = 0
                   THEN _place_tp_order(w, io) ELSE w
             d1 == w1.slot.deal[1]
             is_filled(id) == io.query_ok /\ w1.orders[id].status = "FILLED"
         IN  IF d1.tp_order_id # 0 /\ is_filled(d1.tp_order_id)
             THEN [_cancel_remaining_sos(w1, io.cancel_ok)
                     EXCEPT !.slot.deal = <<>>, !.slot.deals_completed = @ + 1]
             ELSE LET filled_ids == SelectSeq(d1.safety_order_ids, is_filled)
                      w2 == [w1 EXCEPT
                               !.slot.deal[1].safety_orders_filled =
                                   @ + Len(filled_ids),
                               !.slot.deal[1].safety_order_ids =
                                   SelectSeq(@, LAMBDA id : ~is_filled(id))]
                  IN  IF filled_ids # <<>> THEN gw_update_tp_order(w2, io) ELSE w2

\* CoinSlot.check_position_sync with the LONG Deal only
gw_check_position_sync(w, io) ==
    IF w.slot.deal # <<>> /\ io.query_ok /\ w.position = 0
    THEN [_cancel_remaining_sos(w, io.cancel_ok) EXCEPT !.slot.deal = <<>>]
    ELSE w

\* CoinSlot.run_cycle
gw_run_cycle(w, in_) ==
    LET io == in_.io
        w0 == [w EXCEPT !.slot.current_regime = in_.regime, !.log = <<>>]
    IN  IF in_.regime = "EXTREME"
        THEN gw_check_position_sync(gw_check_orders_for_deal(w0, io), io)
        ELSE LET w1 == update_adaptive_tp(w0, in_.atr_pct, io)
                 w2 == gw_check_position_sync(gw_check_orders_for_deal(w1, io), io)
             IN  IF w2.slot.deal = <<>>
                    /\ pm_get_regime_alloc(in_.regime, TRUE)[1] > 0
                 THEN gw_open_deal(w2, io)
                 ELSE w2

GwWorld ==
    [slot |-> gw_slot, orders |-> gw_orders, position |-> gw_position,
     lost_base |-> gw_lost_base, log |-> gw_log]

GwRunCycle(in_) ==
    /\ mode = "gw"
    /\ \E w \in {gw_run_cycle(GwWorld, in_)} :
          /\ Len(w.orders) <= MaxOrders
          /\ w.slot.deal_counter <= MaxGwDeals
          /\ w.position <= MAX_SOS + 2
          /\ gw_slot' = w.slot
          /\ gw_orders' = w.orders
          /\ gw_position' = w.position
          /\ gw_lost_base' = w.lost_base
          /\ gw_log' = w.log
    /\ UNCHANGED <<mode, run_vars, bt_vars, pp_vars, pm_vars, lt_vars, al_vars, rb_vars, gw_env>>

\* the exchange fills a resting order: the shallowest safety order, or a
\* take-profit (which sells the quantity it was placed for)
GwFill(id) ==
    /\ mode = "gw"
    /\ id \in DOMAIN gw_orders
    /\ gw_orders[id].status = "NEW"
    /\ gw_position > 0
    /\ gw_orders[id].kind = "SO" =>
          /\ gw_position < MAX_SOS + 2
          /\ \A j \in DOMAIN gw_orders :
                (gw_orders[j].kind = "SO" /\ gw_orders[j].status = "NEW")
                   => gw_orders[j].n >= gw_orders[id].n
    /\ gw_orders' = [gw_orders EXCEPT ![id].status = "FILLED"]
    /\ gw_position' = IF gw_orders[id].kind = "SO" THEN gw_position + 1
                      ELSE Max(0, gw_position - (gw_orders[id].n + 1))
    /\ UNCHANGED <<mode, run_vars, bt_vars, pp_vars, pm_vars, lt_vars, al_vars, rb_vars, gw_env, gw_slot,
                   gw_lost_base, gw_log>>

GwIo(out_base, out_so, out_tp1, out_tp2, cancel_ok, query_ok) ==
    [out_base |-> out_base, out_so |-> out_so, out_tp1 |-> out_tp1,
     out_tp2 |-> out_tp2, cancel_ok |-> cancel_ok, query_ok |-> query_ok]

\* the gateway's answers of one cycle: all well, or one kind of call failing,
\* or the safety orders and the take-profit failing together
GwFaults ==
    {GwIo("filled", "ok", "ok", "ok", TRUE, TRUE),
     GwIo("nofill", "ok", "ok", "ok", TRUE, TRUE),
     GwIo("reject", "ok", "ok", "ok", TRUE, TRUE),
     GwIo("lost", "ok", "ok", "ok", TRUE, TRUE),
     GwIo("filled", "reject", "ok", "ok", TRUE, TRUE),
     GwIo("filled", "reject_once", "ok", "ok", TRUE, TRUE),
     GwIo("filled", "lost", "ok", "ok", TRUE, TRUE),
     GwIo("filled", "ok", "reject", "ok", TRUE, TRUE),
     GwIo("filled", "ok", "lost", "ok", TRUE, TRUE),
     GwIo("filled", "ok", "reject", "reject", TRUE, TRUE),
     GwIo("filled", "reject", "reject", "ok", TRUE, TRUE),
     GwIo("filled", "ok", "ok", "ok", FALSE, TRUE),
     GwIo("filled", "ok", "ok", "ok", TRUE, FALSE)}

\* A faults run has a gateway that fails and no volatility reading (ATR 0:
\* the adaptive parameters stay at TP_PCT and DEVIATION_PCT).
GwFaultsInputs ==
    [regime : {"RANGING", "EXTREME"}, atr_pct : {0}, io : GwFaults]

\* ATR as a percentage of the price: none, the baseline, 5 % above it, 1.5 x
GwAtrs == {0, 800, 840, 1200}

\* An adaptive run has every volatility reading and a gateway that works.
GwAdaptiveInputs ==
    [regime : {"RANGING", "TRENDING", "EXTREME"}, atr_pct : GwAtrs,
     io : {GwIo("filled", "ok", "ok", "ok", TRUE, TRUE)}]

\* A sweep run calls update_adaptive_tp on a Slot without Deals, over the
\* volatility readings that reach every clamp and over every regime.
SweepAtrs == {0, 200, 800, 1200, 1450, 2000}

\* CoinSlot.update_adaptive_tp after detect_regime returned regime
GwUpdateAdaptive(atr_pct, regime) ==
    /\ mode = "gw" /\ gw_env = "sweep"
    /\ gw_slot' = update_adaptive_tp(
                      [GwWorld EXCEPT !.slot.current_regime = regime], atr_pct,
                      GwIo("filled", "ok", "ok", "ok", TRUE, TRUE)).slot
    /\ UNCHANGED <<mode, run_vars, bt_vars, pp_vars, pm_vars, lt_vars, al_vars, rb_vars, gw_env,
                   gw_orders, gw_position, gw_lost_base, gw_log>>

GwInit ==
    /\ gw_env \in (IF mode = "gw" THEN {"faults", "adaptive", "sweep"}
                   ELSE {"faults"})
    /\ gw_slot = [deal |-> <<>>, deal_counter |-> 0, deals_completed |-> 0,
                  current_tp_pct |-> TP_PCT, current_dev_pct |-> DEVIATION_PCT,
                  current_regime |-> "UNKNOWN"]
    /\ gw_orders = <<>>
    /\ gw_position = 0
    /\ gw_lost_base = FALSE
    /\ gw_log = <<>>

GwNext ==
    \/ \E in_ \in Inputs("gw", IF gw_env = "faults" THEN GwFaultsInputs
                                 ELSE GwAdaptiveInputs) :
          gw_env # "sweep" /\ GwRunCycle(in_)
    \/ \E atr_pct \in Inputs("gw", SweepAtrs), regime \in AllRegimes :
          GwUpdateAdaptive(atr_pct, regime)
    \/ \E id \in 1..MaxOrders : GwFill(id)

-----------------------------------------------------------------------------
(* VirtualCoinSlot.get_regime_alloc on its own: every profile, every regime *)
(* of REGIME_ALLOC, a regime the table does not know, both trends.          *)

AllocInputs == [profile : AllProfiles, regime : AllRegimes, trend_bullish : BOOLEAN]

AllocInit ==
    /\ al_in \in (IF mode = "al" THEN AllocInputs
                  ELSE {[profile |-> "low", regime |-> "UNKNOWN", trend_bullish |-> TRUE]})
    /\ al_out = <<>>

AllocCall ==
    /\ mode = "al"
    /\ al_out = <<>>
    /\ al_out' = <<get_regime_alloc(PROFILES(al_in.profile), al_in.regime,
                                    al_in.trend_bullish)>>
    /\ UNCHANGED <<mode, run_vars, bt_vars, pp_vars, pm_vars, lt_vars, gw_vars, rb_vars, al_in>>

-----------------------------------------------------------------------------
(* PortfolioManager.rebalance (portfolio_manager.py) on its own.  A Slot is *)
(* reduced to what rebalance reads and writes:                              *)
(*   alloc_pct      in 1/10000 (basis points), score x 10000 / total, floor  *)
(*   alloc_capital  in cents                                                *)
(*   scanner_score, status ("active" | "winding_down")                      *)
(*   added_time, wind_down_start (<<>> for None), in hours of time.time()   *)
(*   deal           has_open_deals()                                        *)
(* rb_slots[sym] is <<>> (sym not in self.slots) or <<the Slot>>; rb_now is *)
(* time.time().  total_capital does not change.                             *)

MIN_ALLOC_PCT == 1500
ROTATION_MIN_IMPROVEMENT_PCT == 20
RbTotalCapital == 1000
MIN_HOLD_HOURS == 4
WIND_DOWN_TIMEOUT_S == 7200

\* bound: the last hour of the clock; it starts at hour 1
RbMaxNow == 9
\* bound: the hours that pass between two looks at the clock
RbStepHours == 4

\* bound: PortfolioManager(max_coins = ...), kept below the ranking's length
RbMaxCoins == 2

RbSymbols == {"AAAUSDT", "BBBUSDT", "CCCUSDT"}

RECURSIVE SumScores(_)
SumScores(seq) == IF seq = <<>> THEN 0 ELSE Head(seq).score + SumScores(Tail(seq))

rb_alloc_pct(score, total_score) == (score * 10000) \div total_score

\* total_capital x alloc_pct x (1 - CAPITAL_RESERVE_PCT), in cents
rb_alloc_capital(total_capital, alloc_pct) ==
    (total_capital * alloc_pct * (100 - CAPITAL_RESERVE_PCT)) \div 10000

\* "(time.time() - slot.added_time) < MIN_HOLD_HOURS * 3600" is false
held_long(slot, now) == (now - slot.added_time) * 3600 >= MIN_HOLD_HOURS * 3600

\* add_coin, as rebalance calls it
add_coin(slots, sym, alloc_pct, scanner_score, now) ==
    IF slots[sym] # <<>> THEN slots
    ELSE [slots EXCEPT ![sym] =
            <<[alloc_pct |-> alloc_pct,
               alloc_capital |-> rb_alloc_capital(RbTotalCapital, alloc_pct),
               scanner_score |-> scanner_score, status |-> "active",
               added_time |-> now, wind_down_start |-> <<>>,
               deal |-> FALSE]>>]

\* wind_down_coin
wind_down_coin(slots, sym, now) ==
    IF slots[sym] = <<>> THEN slots
    ELSE [slots EXCEPT ![sym][1].status = "winding_down",
                       ![sym][1].wind_down_start = <<now>>]

\* "Only remove if held long enough" / "Check if replacement scores 20%+
\* better": TRUE when rebalance winds sym down
rb_rotates_out(slots, scored, current_symbols, sym, now) ==
    LET slot == slots[sym][1]
        others == SelectSeq(scored, LAMBDA s : s.symbol \notin current_symbols)
    IN  /\ held_long(slot, now)
        /\ ~ /\ others # <<>>
             /\ slot.scanner_score > 0
             /\ (Head(others).score - slot.scanner_score) * 100
                   < ROTATION_MIN_IMPROVEMENT_PCT * slot.scanner_score

RECURSIVE rb_allocate_no_floor(_, _, _, _, _)
\* mutant of rb_allocate: a share below MIN_ALLOC_PCT is not skipped
rb_allocate_no_floor(st, todo, total_score, to_add, now) ==
    IF todo = <<>> THEN st
    ELSE LET tc == Head(todo)
             sym == tc.symbol
             alloc_pct == rb_alloc_pct(tc.score, total_score)
             st1 ==
                IF st.slots[sym] # <<>> /\ st.slots[sym][1].status = "active"
                THEN [slots |-> [st.slots EXCEPT
                                   ![sym][1].alloc_pct = alloc_pct,
                                   ![sym][1].alloc_capital =
                                       rb_alloc_capital(RbTotalCapital, alloc_pct),
                                   ![sym][1].scanner_score = tc.score],
                      touched |-> st.touched \cup {sym}]
                ELSE IF sym \in to_add
                THEN [slots |-> add_coin(st.slots, sym, alloc_pct, tc.score, now),
                      touched |-> st.touched \cup {sym}]
                ELSE st
         IN  rb_allocate_no_floor(st1, Tail(todo), total_score, to_add, now)

RECURSIVE rb_allocate(_, _, _, _, _)
\* "Calculate allocations for target coins": the loop over target_coins;
\* st = [slots, touched], touched the symbols updated or added so far
rb_allocate(st, todo, total_score, to_add, now) ==
    IF todo = <<>> THEN st
    ELSE LET tc == Head(todo)
             sym == tc.symbol
             alloc_pct == rb_alloc_pct(tc.score, total_score)
             st1 ==
                IF alloc_pct < MIN_ALLOC_PCT THEN st
                ELSE IF st.slots[sym] # <<>> /\ st.slots[sym][1].status = "active"
                THEN [slots |-> [st.slots EXCEPT
                                   ![sym][1].alloc_pct = alloc_pct,
                                   ![sym][1].alloc_capital =
                                       rb_alloc_capital(RbTotalCapital, alloc_pct),
                                   ![sym][1].scanner_score = tc.score],
                      touched |-> st.touched \cup {sym}]
                ELSE IF sym \in to_add
                THEN [slots |-> add_coin(st.slots, sym, alloc_pct, tc.score, now),
                      touched |-> st.touched \cup {sym}]
                ELSE st
         IN  rb_allocate(st1, Tail(todo), total_score, to_add, now)

\* PortfolioManager.rebalance(scanner_results)
rebalance(slots, scanner_results, now) ==
    IF scanner_results = <<>> THEN [slots |-> slots, touched |-> {}]
    ELSE LET scored == SelectSeq(scanner_results, LAMBDA s : s.score > 0)
             target_coins == SubSeq(scored, 1, Min(RbMaxCoins, Len(scored)))
             target_symbols == {target_coins[i].symbol : i \in DOMAIN target_coins}
             current_symbols ==
                {s \in RbSymbols : slots[s] # <<>> /\ slots[s][1].status = "active"}
             winding == {s \in RbSymbols :
                            slots[s] # <<>> /\ slots[s][1].status = "winding_down"}
             to_remove == current_symbols \ target_symbols
             to_add == (target_symbols \ current_symbols) \ winding
             slots1 == [s \in RbSymbols |->
                          IF s \in to_remove
                             /\ rb_rotates_out(slots, scored, current_symbols, s, now)
                          THEN wind_down_coin(slots, s, now)[s]
                          ELSE slots[s]]
             total_score == SumScores(target_coins)
         IN  IF total_score <= 0 THEN [slots |-> slots1, touched |-> {}]
             ELSE rb_allocate([slots |-> slots1, touched |-> {}],
                              target_coins, total_score, to_add, now)

RECURSIVE rb_insert(_, _)
\* e put into a list sorted by score, best first, behind its equals
rb_insert(sorted, e) ==
    IF sorted = <<>> THEN <<e>>
    ELSE IF Head(sorted).score >= e.score
    THEN <<Head(sorted)>> \o rb_insert(Tail(sorted), e)
    ELSE <<e>> \o sorted

RECURSIVE rb_sort(_)
\* scored.sort(key = score, reverse = True): stable
rb_sort(seq) ==
    IF seq = <<>> THEN <<>>
    ELSE rb_insert(rb_sort(SubSeq(seq, 1, Len(seq) - 1)), seq[Len(seq)])

\* AsterTraderV3.read_scanner_and_allocate; its slots have no status other
\* than "active" and are deleted when they leave the target
read_scanner_and_allocate(slots, scanner_results, now) ==
    IF scanner_results = <<>> THEN [slots |-> slots, touched |-> {}]
    ELSE LET scored == rb_sort(SelectSeq(scanner_results, LAMBDA s : s.score > 0))
             target_coins == SubSeq(scored, 1, Min(RbMaxCoins, Len(scored)))
             target_symbols == {target_coins[i].symbol : i \in DOMAIN target_coins}
             total_score == SumScores(target_coins)
             slots1 == [s \in RbSymbols |->
                          IF s \in target_symbols THEN slots[s] ELSE <<>>]
         IN  IF total_score <= 0 THEN [slots |-> slots, touched |-> {}]
             ELSE rb_allocate([slots |-> slots1, touched |-> {}], target_coins,
                              total_score, target_symbols, now)

RbEntry(symbol, score) == [symbol |-> symbol, score |-> score]

\* the scanner's top lists the model feeds in: no result; one coin; a
\* better coin that is less than 20 % better; two coins, the second with a
\* share of 12.7 %; more coins than max_coins; a coin with score 0 first;
\* a list that is not in the order of the scores
RbRankings ==
    { <<>>,
      <<RbEntry("AAAUSDT", 50)>>,
      <<RbEntry("BBBUSDT", 55)>>,
      <<RbEntry("BBBUSDT", 55), RbEntry("CCCUSDT", 8)>>,
      <<RbEntry("CCCUSDT", 55), RbEntry("AAAUSDT", 50), RbEntry("BBBUSDT", 50)>>,
      <<RbEntry("AAAUSDT", 0), RbEntry("CCCUSDT", 50), RbEntry("BBBUSDT", 8)>>,
      <<RbEntry("BBBUSDT", 8), RbEntry("AAAUSDT", 50), RbEntry("CCCUSDT", 50)>> }

\* run_scanner: rebalance (PortfolioManager), read_scanner_and_allocate
\* (paper trader) with the scanner's list
rb_scan(kind, slots, scanner_results, now) ==
    IF kind = "pm" THEN rebalance(slots, scanner_results, now)
    ELSE read_scanner_and_allocate(slots, scanner_results, now)

\* the lists of a run that follows Slots with Deals through a rotation: a
\* first coin; a replacement 10 % better; a replacement 40 % better
RbRotateRankings ==
    { <<RbEntry("AAAUSDT", 50)>>,
      <<RbEntry("BBBUSDT", 55)>>,
      <<RbEntry("BBBUSDT", 70)>> }

RbRebalance(scanner_results) ==
    /\ mode = "rb"
    /\ \E r \in {rb_scan(rb_kind, rb_slots, scanner_results, rb_now)} :
          /\ rb_slots' = r.slots
          /\ rb_last' = <<[ranking |-> scanner_results, touched |-> r.touched]>>
    /\ rb_step' = [op |-> "rebalance", in_ |-> <<>>, forced |-> {}]
    /\ UNCHANGED <<mode, run_vars, bt_vars, pp_vars, pm_vars, lt_vars, gw_vars, al_vars,
                   rb_kind, rb_env, rb_now>>

\* time.sleep: RbStepHours pass
RbTimePasses ==
    /\ mode = "rb"
    /\ rb_now + RbStepHours <= RbMaxNow
    /\ rb_now' = rb_now + RbStepHours
    /\ rb_last' = <<>>
    /\ rb_step' = [op |-> "sleep", in_ |-> <<>>, forced |-> {}]
    /\ UNCHANGED <<mode, run_vars, bt_vars, pp_vars, pm_vars, lt_vars, gw_vars, al_vars,
                   rb_kind, rb_env, rb_slots>>

\* mutant of _check_wind_downs: the time a Slot has been winding down is
\* not looked at
_check_wind_downs_no_timeout(slots, now) ==
    [s \in RbSymbols |->
       IF slots[s] = <<>> \/ slots[s][1].status # "winding_down" THEN slots[s]
       ELSE IF ~slots[s][1].deal THEN <<>>
       ELSE slots[s]]

\* _check_wind_downs: a winding-down Slot is removed (remove_coin: close_all
\* and del) when it has no open Deal or when its time is up
_check_wind_downs(slots, now) ==
    [s \in RbSymbols |->
       IF slots[s] = <<>> \/ slots[s][1].status # "winding_down" THEN slots[s]
       ELSE IF ~slots[s][1].deal THEN <<>>
       ELSE IF /\ slots[s][1].wind_down_start # <<>>
               /\ slots[s][1].wind_down_start[1] # 0
               /\ (now - slots[s][1].wind_down_start[1]) * 3600 > WIND_DOWN_TIMEOUT_S
       THEN <<>>
       ELSE slots[s]]

\* CoinSlot.run_cycle / VirtualCoinSlot.run_cycle as far as the Slot's Deal
\* goes.  in_ = [close, open]: the take-profit of an open Deal is hit in
\* this cycle; regime, allocation and margin let a Deal be opened.  The
\* Slots of one cycle see the same market.
rb_run_cycle(slot, in_) ==
    LET s1 == [slot EXCEPT !.deal = @ /\ ~in_.close]
    IN  IF s1.status = "winding_down" THEN s1
        ELSE IF ~s1.deal /\ in_.open THEN [s1 EXCEPT !.deal = TRUE]
        ELSE s1

\* "for sym, slot in list(self.slots.items()): slot.run_cycle()"; the paper
\* trader runs the Slots whose status is "active"
rb_run_slots(kind, slots, in_) ==
    [s \in RbSymbols |->
       IF slots[s] = <<>> THEN <<>>
       ELSE IF kind = "v3" /\ slots[s][1].status # "active" THEN slots[s]
       ELSE <<rb_run_cycle(slots[s][1], in_)>>]

\* "Update capital" of start(): every Slot's alloc_capital from the
\* equity read in this pass, which here is total_capital
rb_update_capital(slots, total_capital) ==
    [s \in RbSymbols |->
       IF slots[s] = <<>> THEN <<>>
       ELSE <<[slots[s][1] EXCEPT
                 !.alloc_capital = rb_alloc_capital(total_capital,
                                                    slots[s][1].alloc_pct)]>>]

\* one pass of the loop of start() (PortfolioManager): the capital update,
\* _check_wind_downs and the Slots' cycles.  A pass in which the scanner is
\* due is RbRebalance followed by this.
RbCycle(in_) ==
    /\ mode = "rb"
    /\ LET s2 == IF rb_kind = "pm"
                 THEN _check_wind_downs(rb_update_capital(rb_slots, RbTotalCapital),
                                        rb_now)
                 ELSE rb_slots
       IN  rb_slots' = rb_run_slots(rb_kind, s2, in_)
    /\ rb_last' = <<>>
    /\ rb_step' = [op |-> "cycle", in_ |-> <<in_>>,
                    forced |-> {s \in RbSymbols :
                                  /\ rb_slots[s] # <<>> /\ rb_slots[s][1].deal
                                  /\ rb_slots'[s] = <<>>}]
    /\ UNCHANGED <<mode, run_vars, bt_vars, pp_vars, pm_vars, lt_vars, gw_vars, al_vars,
                   rb_kind, rb_env, rb_now>>

\* CoinSlot.to_state_dict, the keys the rotation reads
rb_to_state_dict(slot) ==
    [alloc_capital |-> slot.alloc_capital, alloc_pct |-> slot.alloc_pct,
     scanner_score |-> slot.scanner_score,
     long_deal |-> IF slot.deal THEN <<"deal">> ELSE <<>>,
     status |-> slot.status, added_time |-> slot.added_time,
     wind_down_start |-> slot.wind_down_start]

\* CoinSlot.load_from_state
rb_load_from_state(s) ==
    [alloc_capital |-> s.alloc_capital, alloc_pct |-> s.alloc_pct,
     scanner_score |-> s.scanner_score,
     deal |-> s.long_deal # <<>>,
     status |-> s.status, added_time |-> s.added_time,
     wind_down_start |-> s.wind_down_start]

\* the manager stops and is started again: _shutdown's save_state, then
\* load_state
RbRestart ==
    /\ mode = "rb" /\ rb_kind = "pm"
    /\ \E s \in RbSymbols : rb_slots[s] # <<>>
    /\ rb_slots' = [s \in RbSymbols |->
                      IF rb_slots[s] = <<>> THEN <<>>
                      ELSE <<rb_load_from_state(rb_to_state_dict(rb_slots[s][1]))>>]
    /\ rb_last' = <<>>
    /\ rb_step' = [op |-> "restart", in_ |-> <<>>, forced |-> {}]
    /\ UNCHANGED <<mode, run_vars, bt_vars, pp_vars, pm_vars, lt_vars, gw_vars, al_vars,
                   rb_kind, rb_env, rb_now>>

RbCycleInputs == [close : BOOLEAN, open : BOOLEAN]

\* A run "alloc" sees every list of RbRankings and a market in which no
\* Deal is opened; a run "rotate" sees RbRotateRankings and every market.
RbInit ==
    /\ rb_kind \in (IF mode = "rb" THEN {"pm", "v3"} ELSE {"pm"})
    /\ rb_env \in (IF mode = "rb" THEN {"alloc", "rotate"} ELSE {"alloc"})
    /\ rb_slots = [s \in RbSymbols |-> <<>>]
    /\ rb_last = <<>>
    /\ rb_now = 1
    /\ rb_step = [op |-> "init", in_ |-> <<>>, forced |-> {}]

RbNext ==
    \/ \E scanner_results \in Inputs("rb", RbRankings \cup RbRotateRankings) :
          /\ scanner_results \in (IF rb_env = "alloc" THEN RbRankings
                                  ELSE RbRotateRankings)
          /\ RbRebalance(scanner_results)
    \/ RbTimePasses
    \/ \E in_ \in Inputs("rb", RbCycleInputs) :
          /\ (rb_env = "alloc" => ~in_.open /\ ~in_.close)
          /\ RbCycle(in_)
    \/ RbRestart


-----------------------------------------------------------------------------
(* Several live CoinSlots on one margin pool (portfolio_manager.py).  Here  *)
(* amounts are whole USD and the clock counts seconds.  mg_avail is what    *)
(* api.usdt_available() answers.  The exchange takes the notional of an     *)
(* order out of the pool when it accepts a MARKET or a LIMIT entry order    *)
(* (leverage 1), gives it back when the order is cancelled or the Deal is   *)
(* closed, and rejects an entry order the pool does not cover; the          *)
(* take-profit order reduces the position and takes nothing.  A Slot is     *)
(*   deal        a Deal is open                                             *)
(*   sos         the ladder levels of its pending safety orders             *)
(*   cache, cache_time   _cached_available_margin, _margin_cache_time       *)
(* mg_log lists the entry orders the last Slot cycle had accepted, each     *)
(* with the margin figure it was tested against (<<>>: none) and whether    *)
(* that figure was read from the exchange during that cycle.                *)

MARGIN_RESERVE_PCT == 10
MARGIN_CACHE_S == 25
CYCLE_SLEEP == 30
ERROR_SLEEP == 15

\* bound: the last second of the clock
MgMaxNow == 130
MgPools == {150, 400}

MgAllocCapital == (InitialEquity * SLOT_ALLOC_PCT * (100 - CAPITAL_RESERVE_PCT)) \div 10000
MgBaseOrderUsd == (MgAllocCapital * BASE_ORDER_PCT) \div 100

\* _margin_reserve
_margin_reserve(alloc_capital) == (alloc_capital * MARGIN_RESERVE_PCT) \div 100

\* _estimate_order_margin with leverage 1: notional x 1.2
_estimate_order_margin(notional) == (notional * 12) \div 10

\* _get_available_margin(force) of a live Slot at time now; api_ok: the
\* call of usdt_available does not raise.  [slot, value, read]: read says
\* that the value was read from the exchange by this call.
_get_available_margin(slot, force, now, avail, api_ok) ==
    IF ~force /\ (now - slot.cache_time) < MARGIN_CACHE_S
    THEN [slot |-> slot, value |-> slot.cache, read |-> FALSE]
    ELSE IF api_ok
    THEN [slot |-> [slot EXCEPT !.cache = avail, !.cache_time = now],
          value |-> avail, read |-> TRUE]
    ELSE [slot |-> slot, value |-> slot.cache, read |-> FALSE]

RECURSIVE mg_place_sos(_, _, _, _, _)
\* the loop of _place_so_orders from level n on; w = [slot, avail, log],
\* available the local variable of the method, read whether it stems from
\* the exchange
mg_place_sos(w, i, n, available, read) ==
    IF n > MAX_SOS THEN w
    ELSE LET size_usd == so_qty(MgBaseOrderUsd, n)
             margin_needed == _estimate_order_margin(size_usd)
             reserve == _margin_reserve(MgAllocCapital)
         IN  IF available - margin_needed < reserve THEN w
             ELSE IF w.avail < size_usd
             THEN mg_place_sos(w, i, n + 1, available, read)
             ELSE mg_place_sos(
                    [slot |-> [w.slot EXCEPT !.sos = @ \cup {n}],
                     avail |-> w.avail - size_usd,
                     log |-> Append(w.log,
                               [slot |-> i, kind |-> "SO", n |-> n,
                                figure |-> <<available>>, read |-> read,
                                needed |-> margin_needed, reserve |-> reserve,
                                actual |-> w.avail])],
                    i, n + 1, available - margin_needed, read)

\* _place_so_orders
mg_place_so_orders(w, i, now, api_ok) ==
    LET m == _get_available_margin(w.slot, FALSE, now, w.avail, api_ok)
    IN  mg_place_sos([w EXCEPT !.slot = [m.slot EXCEPT !.sos = {}]], i, 1,
                     m.value, m.read)

RECURSIVE mg_free_for_tp(_, _, _, _, _)
\* the while loop of _ensure_tp_margin: the deepest safety orders are
\* cancelled until the take-profit order fits
mg_free_for_tp(w, needed, now, api_ok, available) ==
    IF w.slot.sos = {} \/ available - needed >= _margin_reserve(MgAllocCapital)
    THEN w
    ELSE LET deepest == CHOOSE n \in w.slot.sos : \A k \in w.slot.sos : k <= n
             w1 == [w EXCEPT !.slot.sos = @ \ {deepest},
                             !.avail = @ + so_qty(MgBaseOrderUsd, deepest)]
             m == _get_available_margin(w1.slot, TRUE, now, w1.avail, api_ok)
         IN  mg_free_for_tp([w1 EXCEPT !.slot = m.slot], needed, now, api_ok,
                            m.value)

\* _ensure_tp_margin, called by _place_tp_order
_ensure_tp_margin(w, now, api_ok) ==
    LET needed == _estimate_order_margin(
                     (MgBaseOrderUsd * (Pct100 + TP_PCT)) \div Pct100)
        m == _get_available_margin(w.slot, TRUE, now, w.avail, api_ok)
    IN  mg_free_for_tp([w EXCEPT !.slot = m.slot], needed, now, api_ok, m.value)

\* open_deal of a live Slot: the MARKET order, then _place_so_orders and
\* _place_tp_order
mg_open_deal(w, i, now, api_ok) ==
    IF w.avail < MgBaseOrderUsd THEN w
    ELSE LET w1 == [slot |-> [w.slot EXCEPT !.deal = TRUE],
                    avail |-> w.avail - MgBaseOrderUsd,
                    log |-> Append(w.log,
                              [slot |-> i, kind |-> "BASE", n |-> 0,
                               figure |-> <<>>, read |-> FALSE,
                               needed |-> _estimate_order_margin(MgBaseOrderUsd),
                               reserve |-> _margin_reserve(MgAllocCapital),
                               actual |-> w.avail])]
         IN  _ensure_tp_margin(mg_place_so_orders(w1, i, now, api_ok), now, api_ok)

\* the take-profit order of the Slot's Deal is filled: the pending safety
\* orders are cancelled and the Deal is closed
mg_tp_filled(w) ==
    [w EXCEPT !.slot.deal = FALSE, !.slot.sos = {},
              !.avail = @ + MgBaseOrderUsd
                          + so_qty(MgBaseOrderUsd, 1) * (IF 1 \in w.slot.sos THEN 1 ELSE 0)
                          + so_qty(MgBaseOrderUsd, 2) * (IF 2 \in w.slot.sos THEN 1 ELSE 0)]

\* CoinSlot.run_cycle; in_ = [tp, open, api_ok]: the take-profit order is
\* found filled; regime and allocation ask for a Deal; usdt_available
\* answers
mg_run_cycle(w, i, now, in_) ==
    LET w1 == IF w.slot.deal /\ in_.tp THEN mg_tp_filled(w) ELSE w
    IN  IF ~w1.slot.deal /\ in_.open THEN mg_open_deal(w1, i, now, in_.api_ok)
        ELSE w1

\* one iteration of "for sym, slot in list(self.slots.items())"
MgSlotCycle(in_) ==
    /\ mode = "mg" /\ mg_idx <= NumSlots
    /\ \E w \in {mg_run_cycle([slot |-> mg_slots[mg_idx], avail |-> mg_avail,
                               log |-> <<>>], mg_idx, mg_now, in_)} :
          /\ mg_slots' = [mg_slots EXCEPT ![mg_idx] = w.slot]
          /\ mg_avail' = w.avail
          /\ mg_log' = w.log
    /\ mg_idx' = mg_idx + 1
    /\ UNCHANGED <<not_mg, mg_now>>

\* the end of a pass: time.sleep(CYCLE_SLEEP), or, when save_state or
\* write_status raised, the handler's time.sleep(15)
MgCycleEnd(exc) ==
    /\ mode = "mg" /\ mg_idx > NumSlots
    /\ \E dt \in {IF exc THEN ERROR_SLEEP ELSE CYCLE_SLEEP} :
          /\ mg_now + dt <= MgMaxNow
          /\ mg_now' = mg_now + dt
    /\ mg_idx' = 1
    /\ mg_log' = <<>>
    /\ UNCHANGED <<not_mg, mg_slots,
                   mg_avail>>

MgInputs == [tp : BOOLEAN, open : BOOLEAN, api_ok : BOOLEAN]

\* the clock starts at second 100: the first _get_available_margin of a
\* Slot finds _margin_cache_time = 0.0 long past
MgInit ==
    /\ mg_avail \in (IF mode = "mg" THEN MgPools ELSE {400})
    /\ mg_slots = [i \in 1..NumSlots |->
                     [deal |-> FALSE, sos |-> {}, cache |-> 0, cache_time |-> 0]]
    /\ mg_now = 100
    /\ mg_idx = 1
    /\ mg_log = <<>>

MgNext ==
    \/ \E in_ \in Inputs("mg", MgInputs) : MgSlotCycle(in_)
    \/ \E exc \in BOOLEAN : MgCycleEnd(exc)

-----------------------------------------------------------------------------
(* The polling loop of PortfolioManager.start ("pm", started by             *)
(* run_portfolio.py) and of AsterTraderV3.start ("v3", started by           *)
(* run_paper_multicoin.py) with the ways it ends.  lp_pc is where the main  *)
(* thread is:                                                               *)
(*   "test"      at the test of "while self._running"                       *)
(*   "body"      inside the try block, cycle_count incremented, the early   *)
(*               checks passed, the Slots' cycles running                   *)
(*   "sleep"     in a time.sleep of the try block                           *)
(*   "handler"   in the time.sleep(15) of "except Exception"                *)
(*   "returned"  start() has returned                                       *)
(*   "raised"    start() was left by an exception                           *)
(* lp_disk is the last portfolio_state.json (pm) or status.json (v3)        *)
(* written.  run_portfolio.py installs no signal handler, so SIGINT raises  *)
(* KeyboardInterrupt in the main thread; the handler run_paper_multicoin.py *)
(* installs calls bot.stop() and then sys.exit(0), which raises SystemExit  *)
(* there.                                                                   *)

LpMaxCycles == 3

\* the keys of save_state (pm) and of write_status (v3) that the loop writes
lp_snapshot(st) == [cycle_count |-> st.cycle_count, halted |-> st.halted]

\* _trigger_halt
lp_trigger_halt(st) == [st EXCEPT !.halted = TRUE]

\* "break" followed by _shutdown: save_state (pm), write_status (v3)
LpShutdown(st, how) ==
    /\ lp_st' = st
    /\ lp_running' = FALSE
    /\ lp_disk' = <<lp_snapshot(st)>>
    /\ lp_pc' = "returned"
    /\ lp_exit' = [how |-> how, at |-> lp_pc]

\* from the while test to the Slots' cycles: cycle_count, the ping, the
\* halted flag and the kill switches (the last two are the pm's)
LpEnter(in_) ==
    /\ mode = "lp" /\ lp_pc = "test" /\ lp_running
    /\ lp_st.cycle_count < LpMaxCycles
    /\ LET s1 == [lp_st EXCEPT !.cycle_count = @ + 1]
           s2 == [s1 EXCEPT !.consecutive_errors = @ + 1]
           s3 == [s1 EXCEPT !.consecutive_errors = 0]
       IN  IF lp_kind = "pm"
           THEN IF ~in_.ping
                THEN IF s2.consecutive_errors >= ERROR_LIMIT
                     THEN LpShutdown(lp_trigger_halt(s2), "halt")
                     ELSE /\ lp_st' = s2 /\ lp_pc' = "sleep"
                          /\ UNCHANGED <<lp_running, lp_disk, lp_exit>>
                ELSE IF s3.halted THEN LpShutdown(s3, "halt")
                ELSE IF in_.kill THEN LpShutdown(lp_trigger_halt(s3), "halt")
                ELSE /\ lp_st' = s3 /\ lp_pc' = "body"
                     /\ UNCHANGED <<lp_running, lp_disk, lp_exit>>
           ELSE /\ lp_st' = s1
                /\ lp_pc' = IF in_.ping THEN "body" ELSE "sleep"
                /\ UNCHANGED <<lp_running, lp_disk, lp_exit>>
    /\ UNCHANGED <<not_lp, lp_kind>>

\* the rest of the try block.  exc: something in it raises an Exception
\* before save_state / write_status is reached
LpFinish(exc) ==
    /\ mode = "lp" /\ lp_pc = "body"
    /\ IF ~exc
       THEN /\ lp_disk' = <<lp_snapshot(lp_st)>>
            /\ lp_pc' = "sleep"
            /\ UNCHANGED <<lp_st, lp_running, lp_exit>>
       ELSE IF lp_kind = "pm"
       THEN LET s1 == [lp_st EXCEPT !.consecutive_errors = @ + 1]
            IN  IF s1.consecutive_errors >= ERROR_LIMIT
                THEN LpShutdown(lp_trigger_halt(s1), "halt")
                ELSE /\ lp_st' = s1 /\ lp_pc' = "handler"
                     /\ UNCHANGED <<lp_running, lp_disk, lp_exit>>
       ELSE /\ lp_pc' = "handler"
            /\ UNCHANGED <<lp_st, lp_running, lp_disk, lp_exit>>
    /\ UNCHANGED <<not_lp, lp_kind>>

\* a time.sleep returns
LpWake ==
    /\ mode = "lp" /\ lp_pc \in {"sleep", "handler"}
    /\ lp_pc' = "test"
    /\ UNCHANGED <<not_lp, lp_kind, lp_st, lp_running, lp_disk, lp_exit>>

\* the while test finds _running False
LpExit ==
    /\ mode = "lp" /\ lp_pc = "test" /\ ~lp_running
    /\ LpShutdown(lp_st, "flag")
    /\ UNCHANGED <<not_lp, lp_kind>>

\* stop(), called while start() runs
LpStop ==
    /\ mode = "lp" /\ lp_running /\ lp_pc \notin {"returned", "raised"}
    /\ lp_running' = FALSE
    /\ UNCHANGED <<not_lp, lp_kind, lp_pc, lp_st, lp_disk, lp_exit>>

\* SIGINT while the main thread is in the try block or in the handler's
\* sleep.  pm: KeyboardInterrupt; "except KeyboardInterrupt: break" covers
\* the try block, nothing covers the handler.  v3: stop(), then SystemExit,
\* which neither except clause of start() catches.
LpSigint ==
    /\ mode = "lp" /\ lp_pc \in {"body", "sleep", "handler"}
    /\ IF lp_kind = "pm" /\ lp_pc # "handler"
       THEN LpShutdown(lp_st, "interrupt")
       ELSE /\ lp_pc' = "raised"
            /\ lp_running' = IF lp_kind = "v3" THEN FALSE ELSE lp_running
            /\ lp_exit' = [how |-> "interrupt", at |-> lp_pc]
            /\ UNCHANGED <<lp_st, lp_disk>>
    /\ UNCHANGED <<not_lp, lp_kind>>

LpInputs == [ping : BOOLEAN, kill : BOOLEAN]

\* start() has set _running and reached the loop; nothing is on disk
LpInit ==
    /\ lp_kind \in (IF mode = "lp" THEN {"pm", "v3"} ELSE {"pm"})
    /\ lp_pc = "test"
    /\ lp_running = TRUE
    /\ lp_st = [cycle_count |-> 0, consecutive_errors |-> 0, halted |-> FALSE]
    /\ lp_disk = <<>>
    /\ lp_exit = [how |-> "none", at |-> "test"]

LpNext ==
    \/ \E in_ \in Inputs("lp", LpInputs) : LpEnter(in_)
    \/ \E exc \in BOOLEAN : LpFinish(exc)
    \/ LpWake
    \/ LpExit
    \/ LpStop
    \/ LpSigint

-----------------------------------------------------------------------------
(* One LONG Deal opened at the same price in the three engines and fed the  *)
(* same flat bars: the backtest (MartingaleBot._process_long_deal), the     *)
(* paper trader (PaperTrader._process_candle) and a dry-run CoinSlot        *)
(* (_dry_run_check), the Slot with the configuration's deviation and        *)
(* take-profit as its current_dev_pct and current_tp_pct.                   *)

EqMaxBars == 3
EqOpenPrice == 10000
EqPrices == {9000, 9850, 10000, 10300}
\* the paper trader's cash before the Deal: the paper default, the backtest's
EqCash == {lt_initial_capital, initial_capital}
\* the Slot's allocation: its base order is 100 USD
EqAllocCapital == 2500 * UsdUnit

eq_open_bt ==
    NewDeal(make_order(EqOpenPrice, base_order_size, "buy"), "LONG")
eq_open_pt(cash) ==
    pt_open_new_deal([lt_fresh EXCEPT !.cash = cash], EqOpenPrice)
eq_open_dry ==
    pm_open_deal([NewSlot EXCEPT !.current_price = EqOpenPrice,
                                 !.current_dev_pct = price_deviation_pct,
                                 !.current_tp_pct = take_profit_pct],
                 "LONG", EqAllocCapital, TRUE, "filled")

\* the safety orders filled so far and whether the Deal is closed
eq_bt_view(d) == [fills |-> so_count(d), closed |-> ~is_open(d)]
eq_pt_view(st) ==
    IF st.open_deals # <<>>
    THEN [fills |-> so_count(st.open_deals[1]), closed |-> FALSE]
    ELSE [fills |-> so_count(st.closed_deals[1]), closed |-> TRUE]
eq_dry_view(slot) ==
    IF slot.long_deal # <<>>
    THEN [fills |-> slot.long_deal[1].safety_orders_filled, closed |-> FALSE]
    ELSE [fills |-> eq_dry_fills, closed |-> TRUE]

\* one bar (high = low = close = price) in each engine
EqBar(price) ==
    /\ mode = "eq" /\ eq_n < EqMaxBars
    /\ eq_n' = eq_n + 1
    /\ eq_bt' = IF is_open(eq_bt)
                THEN process_deal(eq_bt, price, price, InfPrice * 1000, 100, 0)
                ELSE eq_bt
    /\ eq_pt' = _process_candle(eq_pt, eq_pt.open_deals, price, price)
    /\ LET s1 == [eq_dry EXCEPT !.current_price = price]
           d1 == IF s1.long_deal = <<>> THEN <<>>
                 ELSE <<pm_dry_fill(s1, s1.long_deal[1],
                                    s1.long_deal[1].safety_orders_filled + 1,
                                    EqAllocCapital)>>
       IN  /\ eq_dry' = dry_run_check(s1, EqAllocCapital)
           /\ eq_dry_fills' = IF d1 = <<>> THEN eq_dry_fills
                              ELSE d1[1].safety_orders_filled
    /\ UNCHANGED not_eq

EqInit ==
    /\ \E cash \in (IF mode = "eq" THEN EqCash ELSE {initial_capital}) :
          eq_pt = eq_open_pt(cash)
    /\ eq_bt = eq_open_bt
    /\ eq_dry = eq_open_dry
    /\ eq_dry_fills = 0
    /\ eq_n = 0

EqNext == \E price \in Inputs("eq", EqPrices) : EqBar(price)

-----------------------------------------------------------------------------
(* classify_regime and classify_regime_v2 (regime_detector.py).  A frame is *)
(* [rows, columns]: columns the names of its columns; a row holds, for one  *)
(* bar, the figures the indicator functions derive from the bar window      *)
(* (each of them a function of the frame it is handed and of nothing else): *)
(*   a      adx_14                    h     hurst, x100                     *)
(*   b      bbw, x100                 bm    rolling median of bbw, x100     *)
(*   ap     atr_pct, x100             v     volume, x100                    *)
(*   vs     vol_sma_20, x100          nan   the names of the figures that   *)
(*                                          are NaN on this row             *)
(*   vuvu   hvf_vuvuzela, x100        spring   spring_detection             *)
(*   vc     the volume_climax values in the lookback window                 *)
(*   rt     range_tightening, x100    vt    volume_trend                    *)
(*   low    the close is in the lower 30 % of a window of more than 20 bars *)
(*   cb     channel_breakout ("none" for None)                              *)
(*   narrow channel_width_pct < 0.8 x its rolling mean                      *)
(* cg_TF_ADJ is the module-level dict _TF_ADJ, x100.                        *)

CgMaxCalls == 3
\* bound: the rows of CgRows that are also classified after a quiet row
CgTwoRows == 2

OHLCV == {"timestamp", "open", "high", "low", "close", "volume"}
INDICATOR_COLUMNS == {"ema_9", "ema_21", "ema_50", "rsi_14", "adx_14", "atr_14",
                      "atr_pct", "bbw", "vol_sma_20", "hurst"}

CgTimeframes == {"5m", "1h", "1d"}
TF_ADJ == [tf \in {"1m", "5m", "15m", "1h", "4h"} |->
             CASE tf = "1m" -> 150 [] tf = "5m" -> 130 [] tf = "15m" -> 115
               [] tf = "1h" -> 100 [] OTHER -> 85]

\* mutant of compute_all: the columns are added to the frame it was handed
compute_all_in_place(df) ==
    LET out == [df EXCEPT !.columns = @ \cup INDICATOR_COLUMNS]
    IN  [out |-> out, arg |-> out]

\* compute_all: df = df.copy(), then the indicator columns.  out is the
\* frame returned, arg the caller's frame after the call
compute_all(df) ==
    [out |-> [df EXCEPT !.columns = @ \cup INDICATOR_COLUMNS], arg |-> df]

\* "x.iloc[i] if not pd.isna(x.iloc[i]) else default"
cg_fill(r, name, value, default) == IF name \in r.nan THEN default ELSE value

\* v / vs of one row, x100: v is 0 and vs is 1 where they are missing
cg_vol_ratio(r) ==
    LET v == cg_fill(r, "volume", r.v, 0)
        vs == IF "vol_sma_20" \notin r.nan /\ r.vs > 0 THEN r.vs ELSE 100
    IN  (v * 100) \div vs

\* the locals of the loop of classify_regime for one row: a, h, ap, and the
\* two ratios (x100)
cg_filled(r) ==
    LET b == cg_fill(r, "bbw", r.b, 300)
        bm == cg_fill(r, "bbw_med", r.bm, 300)
    IN  [a |-> cg_fill(r, "adx_14", r.a, 25),
         h |-> cg_fill(r, "hurst", r.h, 50),
         ap |-> cg_fill(r, "atr_pct", r.ap, 100),
         bbw_ratio |-> IF bm > 0 THEN (b * 100) \div bm ELSE 100,
         vol_ratio |-> cg_vol_ratio(r)]

\* the weighted score of one row, x10000
cg_score(f, adj) ==
    35 * Min((f.a * 100 * 100) \div (40 * adj), 150)
    + (IF f.h > 0 THEN 25 * (f.h * 2) ELSE 2500)
    + 20 * Min(f.bbw_ratio, 200)
    + 20 * Min(f.vol_ratio \div 2, 150)

\* mutant of cg_base_row: the trend bands are tested before the EXTREME trigger
cg_base_row_trend_first(r, adj) ==
    LET f == cg_filled(r)
        score == cg_score(f, adj)
    IN  IF f.a * 100 > 40 * adj \/ score > 11000 THEN "TRENDING"
        ELSE IF f.vol_ratio > 300 /\ f.ap * 100 > 300 * adj THEN "EXTREME"
        ELSE IF f.a * 100 > 30 * adj \/ score > 8500 THEN "MILD_TREND"
        ELSE IF f.a * 100 < 20 * adj /\ f.h < 45 /\ f.bbw_ratio < 90 THEN "CHOPPY"
        ELSE "RANGING"

\* classify_regime, the body of the loop for one row
cg_base_row(r, adj) ==
    LET f == cg_filled(r)
        adx_low == 20 * adj
        adx_mid == 30 * adj
        adx_high == 40 * adj
        score == cg_score(f, adj)
    IN  IF f.vol_ratio > 300 /\ f.ap * 100 > 300 * adj THEN "EXTREME"
        ELSE IF f.a * 100 > adx_high \/ score > 11000 THEN "TRENDING"
        ELSE IF f.a * 100 > adx_mid \/ score > 8500 THEN "MILD_TREND"
        ELSE IF f.a * 100 < adx_low /\ f.h < 45 /\ f.bbw_ratio < 90 THEN "CHOPPY"
        ELSE "RANGING"

\* _TF_ADJ.get(timeframe, 1.0)
cg_adj(tf_adj, timeframe) ==
    IF timeframe \in DOMAIN tf_adj THEN tf_adj[timeframe] ELSE 100

\* classify_regime: [out: the labels, arg: the caller's frame afterwards]
classify_regime(df, timeframe, tf_adj) ==
    LET c == compute_all(df)
        adj == cg_adj(tf_adj, timeframe)
        out == [i \in 1..Len(c.out.rows) |-> cg_base_row(c.out.rows[i], adj)]
    IN  [out |-> out, arg |-> c.arg, base |-> out]

\* channel_breakout for one row: the name of the breakout, and on a row
\* without one what pd.Series(None, index, dtype=object) holds (df.na)
channel_breakout(df, r) == IF r.cb = "none" THEN df.na ELSE r.cb

\* classify_regime_v2, the body of the loop for one row; cb_val is
\* cb.iloc[i], and "None" the only value that is None
cg_v2_row(r, base, timeframe, cb_val) ==
    LET hvf_threshold == IF timeframe \in {"5m", "15m"} THEN 80 ELSE 75
        quiet == r.rt < 100 /\ r.vt \in {"decreasing", "flat"}
    IN  IF r.vuvu > hvf_threshold THEN "BREAKOUT_WARNING"
        ELSE IF r.spring THEN "ACCUMULATION"
        ELSE IF "selling_climax" \in r.vc /\ quiet THEN "ACCUMULATION"
        ELSE IF "buying_climax" \in r.vc /\ quiet THEN "DISTRIBUTION"
        ELSE IF base = "RANGING" /\ r.vt = "decreasing" /\ r.low
        THEN "ACCUMULATION"
        ELSE IF cb_val # "None"
        THEN IF cg_vol_ratio(r) > 300 THEN "EXTREME"
             ELSE IF cg_vol_ratio(r) > 200 THEN "TRENDING"
             ELSE base
        ELSE IF r.narrow
        THEN IF base = "TRENDING" THEN "MILD_TREND"
             ELSE IF base = "MILD_TREND" THEN "RANGING"
             ELSE base
        ELSE base

\* classify_regime_v2: compute_all, then classify_regime on its result
classify_regime_v2(df, timeframe, tf_adj) ==
    LET c == compute_all(df)
        base == classify_regime(c.out, timeframe, tf_adj).out
    IN  [out |-> [i \in 1..Len(c.out.rows) |->
                    cg_v2_row(c.out.rows[i], base[i], timeframe,
                              channel_breakout(c.out, c.out.rows[i]))],
         arg |-> c.arg, base |-> base]

cg_classify(version, df, timeframe, tf_adj) ==
    IF version = "v1" THEN classify_regime(df, timeframe, tf_adj)
    ELSE classify_regime_v2(df, timeframe, tf_adj)

\* the figures that need a window of bars before they exist
CgRolling == {"adx_14", "hurst", "bbw", "bbw_med", "atr_pct", "vol_sma_20"}

CgQuiet ==
    [a |-> 15, h |-> 40, b |-> 240, bm |-> 300, ap |-> 100, v |-> 100,
     vs |-> 100, nan |-> {}, vuvu |-> 50,
     spring |-> FALSE, vc |-> {}, rt |-> 120, vt |-> "increasing", low |-> FALSE,
     cb |-> "none", narrow |-> FALSE]

\* the rows of the frames: one per branch of the two loops
CgRows ==
    << CgQuiet,
       [CgQuiet EXCEPT !.a = 25],
       [CgQuiet EXCEPT !.a = 35, !.narrow = TRUE],
       [CgQuiet EXCEPT !.a = 45, !.h = 60, !.narrow = TRUE],
       [CgQuiet EXCEPT !.v = 350, !.ap = 350],
       [CgQuiet EXCEPT !.vuvu = 78],
       [CgQuiet EXCEPT !.spring = TRUE],
       [CgQuiet EXCEPT !.vc = {"selling_climax", "buying_climax"}, !.rt = 90,
                       !.vt = "flat"],
       [CgQuiet EXCEPT !.vc = {"buying_climax"}, !.rt = 90, !.vt = "decreasing"],
       [CgQuiet EXCEPT !.a = 25, !.vt = "decreasing", !.low = TRUE],
       [CgQuiet EXCEPT !.cb = "breakout_up", !.v = 250],
       [CgQuiet EXCEPT !.cb = "breakout_down", !.v = 350, !.ap = 100],
       \* a bar of the warm-up: the volume is there, the rolling figures are not
       [CgQuiet EXCEPT !.nan = CgRolling, !.v = 5000],
       [CgQuiet EXCEPT !.nan = CgRolling \cup {"volume"}],
       [CgQuiet EXCEPT !.nan = {"vol_sma_20"}, !.v = 5000, !.ap = 350],
       \* a volume and ATR spike with one of the overlays
       [CgQuiet EXCEPT !.v = 350, !.ap = 350, !.spring = TRUE],
       [CgQuiet EXCEPT !.v = 350, !.ap = 350, !.vuvu = 90],
       [CgQuiet EXCEPT !.v = 350, !.ap = 350, !.a = 45, !.narrow = TRUE],
       \* high volume without a breakout, and a breakout at exactly 3x
       [CgQuiet EXCEPT !.v = 250],
       [CgQuiet EXCEPT !.cb = "breakout_up", !.v = 300] >>

\* what an object Series built from the scalar None holds: None itself, or
\* the missing-value marker NaN the library puts in its place
CgNa == {"None", "nan"}

CgFrame(rows, na) == [rows |-> rows, columns |-> OHLCV, na |-> na]

\* the frames a caller holds: one row, or one row after a quiet one
CgFrames ==
    {CgFrame(<<CgRows[i]>>, na) : i \in DOMAIN CgRows, na \in CgNa}
        \cup {CgFrame(<<CgQuiet, CgRows[i]>>, na) : i \in 1..CgTwoRows, na \in CgNa}
        \cup {CgFrame(<<CgRows[13], CgRows[18]>>, na) : na \in CgNa}

\* a call on the caller's frame (own) or on another frame
CgCall(version, timeframe, own, other) ==
    /\ mode = "cg" /\ cg_n < CgMaxCalls
    /\ cg_n' = cg_n + 1
    /\ LET res == cg_classify(version, IF own THEN cg_df ELSE other, timeframe,
                              cg_TF_ADJ)
           key == <<version, timeframe>>
       IN  /\ cg_df' = IF own THEN res.arg ELSE cg_df
           /\ cg_last' = [version |-> version, timeframe |-> timeframe,
                          own |-> own, out |-> res.out, base |-> res.base,
                          df |-> IF own THEN cg_df ELSE other,
                          repeat |-> own /\ cg_seen[key] # <<>>,
                          between |-> IF own THEN cg_last.between
                                      ELSE cg_last.between + 1]
           /\ cg_seen' = IF own /\ cg_seen[key] = <<>>
                         THEN [cg_seen EXCEPT ![key] = <<res.out>>]
                         ELSE cg_seen
    /\ UNCHANGED <<not_cg, cg_TF_ADJ>>

CgInit ==
    /\ cg_df \in (IF mode = "cg" THEN CgFrames ELSE {CgFrame(<<CgQuiet>>, "None")})
    /\ cg_TF_ADJ = TF_ADJ
    /\ cg_seen = [k \in {"v1", "v2"} \X CgTimeframes |-> <<>>]
    /\ cg_last = [version |-> "none", timeframe |-> "1h", own |-> FALSE,
                  out |-> <<>>, base |-> <<>>, df |-> CgFrame(<<>>, "None"),
                  repeat |-> FALSE, between |-> 0]
    /\ cg_n = 0

CgNext ==
    \E version \in Inputs("cg", {"v1", "v2"}), timeframe \in CgTimeframes, own \in BOOLEAN :
       \E other \in {CgFrame(<<CgRows[5]>>, cg_df.na),
                      CgFrame(<<CgQuiet, CgRows[6]>>, cg_df.na)} :
          /\ (own => other = CgFrame(<<CgRows[5]>>, cg_df.na))
          /\ CgCall(version, timeframe, own, other)

-----------------------------------------------------------------------------
(* CoinSlot.check_position_sync against what the gateway reports            *)
(* (portfolio_manager.py).  Quantities are in 1/1000 of a coin.  The Slot   *)
(* is [long_deal, short_deal]; a Deal here is [total_qty,                   *)
(* safety_order_ids].  ps_orders are the ids of the orders open at the      *)
(* exchange; ps_log and ps_events are what the call printed and what it     *)
(* sent through send_telegram.                                              *)

\* bound: calls of check_position_sync in one behaviour
PsMaxCalls == 2
\* "abs(pos_amt - self.long_deal.total_qty) < 0.01"
PS_QTY_TOLERANCE == 10
PsSymbol == "HYPEUSDT"

PsLong == [total_qty |-> 100, safety_order_ids |-> <<1, 2>>]
PsShort == [total_qty |-> 200, safety_order_ids |-> <<3>>]
PsSlots == [long_deal : {<<>>, <<PsLong>>}, short_deal : {<<>>, <<PsShort>>}]

PsRow(symbol, amt, side) == [symbol |-> symbol, positionAmt |-> amt, positionSide |-> side]
\* what api.position_risk(symbol) returns: a list of rows, or it raises
PsReports ==
    {[raises |-> TRUE, rows |-> <<>>], [raises |-> FALSE, rows |-> <<>>],
     [raises |-> FALSE, rows |-> <<PsRow("BTCUSDT", 0, "BOTH")>>]}
    \cup {[raises |-> FALSE, rows |-> <<PsRow(PsSymbol, a, "BOTH")>>] :
             a \in {0, 100, 105, 150, 0 - 200, 0 - 150}}
    \cup {[raises |-> FALSE, rows |-> <<PsRow(PsSymbol, a, "LONG"),
                                        PsRow(PsSymbol, b, "SHORT")>>] :
             a \in {0, 100}, b \in {0, 0 - 200}}

PsAbs(x) == IF x < 0 THEN 0 - x ELSE x
PsIds(deal) == {deal[1].safety_order_ids[i] : i \in DOMAIN deal[1].safety_order_ids}

\* "self._cancel_remaining_sos(deal); self.<direction>_deal = None":
\* cancel_order is called for every id and its exception is swallowed
ps_clear(st, direction, cancel_ok) ==
    LET deal == IF direction = "LONG" THEN st.slot.long_deal ELSE st.slot.short_deal
        st1 == IF cancel_ok THEN [st EXCEPT !.orders = @ \ PsIds(deal)] ELSE st
    IN  IF direction = "LONG" THEN [st1 EXCEPT !.slot.long_deal = <<>>]
        ELSE [st1 EXCEPT !.slot.short_deal = <<>>]

\* the body of "for p in positions"
ps_row(st, p, cancel_ok) ==
    LET has_long == st.slot.long_deal # <<>>
        has_short == st.slot.short_deal # <<>>
        pos_amt == p.positionAmt
    IN  IF p.symbol # PsSymbol THEN st
        ELSE IF p.positionSide # "BOTH" THEN st
        ELSE IF pos_amt = 0
        THEN IF has_long /\ ~has_short THEN ps_clear(st, "LONG", cancel_ok)
             ELSE IF has_short /\ ~has_long THEN ps_clear(st, "SHORT", cancel_ok)
             ELSE st
        ELSE IF pos_amt > 0 /\ has_long /\ has_short
        THEN IF PsAbs(pos_amt - st.slot.long_deal[1].total_qty) < PS_QTY_TOLERANCE
             THEN ps_clear(st, "SHORT", cancel_ok) ELSE st
        ELSE IF pos_amt < 0 /\ has_long /\ has_short
        THEN IF PsAbs(PsAbs(pos_amt) - st.slot.short_deal[1].total_qty) < PS_QTY_TOLERANCE
             THEN ps_clear(st, "LONG", cancel_ok) ELSE st
        ELSE st

RECURSIVE ps_rows(_, _, _)
ps_rows(st, rows, cancel_ok) ==
    IF rows = <<>> THEN st
    ELSE ps_rows(ps_row(st, Head(rows), cancel_ok), Tail(rows), cancel_ok)

\* CoinSlot.check_position_sync; st = [slot, orders, log, events]
position_sync(st, dry_run, rep, cancel_ok) ==
    IF dry_run THEN st
    ELSE IF st.slot.long_deal = <<>> /\ st.slot.short_deal = <<>> THEN st
    ELSE IF rep.raises THEN [st EXCEPT !.log = Append(@, "Position sync error")]
    ELSE ps_rows(st, rep.rows, cancel_ok)

PsCall(rep, cancel_ok) ==
    /\ mode = "ps"
    /\ ps_n < PsMaxCalls
    /\ \E st \in {position_sync([slot |-> ps_slot, orders |-> ps_orders,
                                 log |-> <<>>, events |-> <<>>],
                                ps_dry_run, rep, cancel_ok)} :
          /\ ps_slot' = st.slot
          /\ ps_orders' = st.orders
          /\ ps_last' = [called |-> TRUE, rep |-> rep, before |-> ps_slot,
                         asked |-> ~ps_dry_run /\ ps_slot # [long_deal |-> <<>>,
                                                            short_deal |-> <<>>],
                         log |-> st.log, events |-> st.events]
    /\ ps_n' = ps_n + 1
    /\ UNCHANGED <<not_ps, ps_dry_run>>

PsInit ==
    /\ ps_slot \in (IF mode = "ps" THEN PsSlots
                    ELSE {[long_deal |-> <<>>, short_deal |-> <<>>]})
    /\ ps_dry_run \in (IF mode = "ps" THEN BOOLEAN ELSE {FALSE})
    /\ ps_orders = (IF ps_slot.long_deal = <<>> THEN {} ELSE PsIds(ps_slot.long_deal))
                      \cup (IF ps_slot.short_deal = <<>> THEN {}
                            ELSE PsIds(ps_slot.short_deal))
    /\ ps_last = [called |-> FALSE, rep |-> [raises |-> FALSE, rows |-> <<>>],
                  before |-> ps_slot, asked |-> FALSE, log |-> <<>>, events |-> <<>>]
    /\ ps_n = 0

PsNext ==
    \E rep \in Inputs("ps", PsReports), cancel_ok \in BOOLEAN : PsCall(rep, cancel_ok)

-----------------------------------------------------------------------------
Init ==
    /\ mode \in {"bt", "paper", "pm", "lt", "gw", "al", "rb", "mg", "lp", "eq", "cg", "ps"}
    /\ BtInit
    /\ PaperInit
    /\ PmInit
    /\ LtInit
    /\ GwInit
    /\ AllocInit
    /\ RbInit
    /\ MgInit
    /\ LpInit
    /\ EqInit
    /\ CgInit
    /\ PsInit

Next ==
    \/ BtNext \/ PaperNext \/ PmNext \/ LtNext \/ GwNext \/ AllocCall \/ RbNext
    \/ MgNext \/ LpNext \/ EqNext \/ CgNext \/ PsNext

Spec == Init /\ [][Next]_vars

-----------------------------------------------------------------------------
(* The Deals each driver holds, for the properties below *)

BtDeals == {bt_open[i] : i \in DOMAIN bt_open} \cup {bt_closed[i] : i \in DOMAIN bt_closed}
PaperDeals == {pp_slot.long_deal[i] : i \in DOMAIN pp_slot.long_deal}
                \cup {pp_slot.short_deal[i] : i \in DOMAIN pp_slot.short_deal}
PmDeals == UNION {{pm_slots[s].long_deal[i] : i \in DOMAIN pm_slots[s].long_deal}
                    \cup {pm_slots[s].short_deal[i] : i \in DOMAIN pm_slots[s].short_deal}
                  : s \in DOMAIN pm_slots}
PmCloses == UNION {{pm_slots[s].closed[i] : i \in DOMAIN pm_slots[s].closed}
                   : s \in DOMAIN pm_slots}
PmOpens == UNION {{pm_slots[s].opens[i] : i \in DOMAIN pm_slots[s].opens}
                  : s \in DOMAIN pm_slots}
LtOpenDeals == {lt.open_deals[i] : i \in DOMAIN lt.open_deals}
LtClosedDeals == {lt.closed_deals[i] : i \in DOMAIN lt.closed_deals}

-----------------------------------------------------------------------------
\* C1: in the backtest, the paper slot and the portfolio slot the filled
\* safety orders of every Deal are the ladder levels 1..k, in that order:
\* the i-th fill recorded is level i, and no level is filled while a
\* shallower one is not.
C1_SafetyOrdersFillInLadderOrder ==
    /\ \A d \in BtDeals : \A i \in DOMAIN d.safety_orders :
          d.safety_orders[i].size_usd = so_size(i)
    /\ \A d \in PaperDeals : \A i \in DOMAIN d.virtual_so_levels :
          /\ d.virtual_so_levels[i].level = i
          /\ d.virtual_so_levels[i].filled <=> i <= d.safety_orders_filled
    /\ \A d \in PmDeals :
          d.so_levels = [i \in 1..d.safety_orders_filled |-> i]

\* a backtest Deal with two safety orders filled
C1_Witness ==
    \E d \in BtDeals : Len(d.safety_orders) >= 2

\* C2: the PnL recorded at a close is (total_qty x close_price - close_fee)
\* - (total_invested + entry fees) for LONG and (total_invested - entry
\* fees) - (total_qty x close_price + close_fee) for SHORT, in every driver;
\* in the portfolio slot the fee of a fill is FEE_PCT of its notional.
C2_RealizedPnlNetOfFees ==
    /\ \A d \in BtDeals : ~is_open(d) =>
          LET value == Notional(total_qty(d), d.close_price)
              entry_fees == total_fees(d) - d.close_fee
          IN  pnl(d) = IF d.direction = "LONG"
                       THEN (value - d.close_fee) - (total_invested(d) + entry_fees)
                       ELSE (total_invested(d) - entry_fees) - (value + d.close_fee)
    /\ \A d \in LtClosedDeals :
          LET value == Notional(total_qty(d), d.close_price)
              entry_fees == total_fees(d) - d.close_fee
          IN  realized_pnl(d) = (value - d.close_fee) - (total_invested(d) + entry_fees)
    /\ \A c \in PmCloses :
          LET value == c.total_qty * c.close_price
              close_fee == ((value \div 100) * FEE_PCT) \div 1000
              entry_fees == ((c.total_cost \div 100) * FEE_PCT) \div 1000
          IN  c.realized_pnl = IF c.direction = "LONG"
                               THEN (value - close_fee) - (c.total_cost + entry_fees)
                               ELSE (c.total_cost - entry_fees) - (value + close_fee)

\* C3: the average entry of a Deal is its total cost divided by its total
\* quantity; the average a VirtualDeal stores equals total_cost / total_qty
\* after the base fill, after every safety-order fill and after a rebuild
\* from its dict.
C3_AvgEntryIsCostOverQty ==
    /\ \A d \in PaperDeals :
          d.total_qty > 0 /\ d.avg_entry = d.total_cost \div d.total_qty
    /\ \A d \in BtDeals \cup LtOpenDeals \cup LtClosedDeals :
          /\ avg_entry(d) * total_qty(d) <= total_invested(d) * QtyUnit
          /\ total_invested(d) * QtyUnit < (avg_entry(d) + 1) * total_qty(d)

\* a VirtualDeal with a safety order filled, rebuilt by from_dict
C3_Witness ==
    /\ pp_restored
    /\ \E d \in PaperDeals : d.safety_orders_filled >= 1

\* every open paper Deal has been checked against the current price
PaperSettled ==
    \A d \in PaperDeals :
       /\ IF d.direction = "LONG" THEN pp_price < d.tp_price ELSE pp_price > d.tp_price
       /\ \A i \in DOMAIN d.virtual_so_levels :
             i = d.safety_orders_filled + 1 =>
                IF d.direction = "LONG" THEN pp_price > d.virtual_so_levels[i].price
                ELSE pp_price < d.virtual_so_levels[i].price

\* every open Deal of a dry-run portfolio Slot has been checked against
\* the Slot's current price
PmDrySettled ==
    \A s \in DOMAIN pm_slots :
       pm_slots[s].current_regime = "EXTREME" =>
          /\ \A i \in DOMAIN pm_slots[s].long_deal :
                pm_slots[s].current_price
                   < pm_tp_price(pm_slots[s].long_deal[i], pm_slots[s].current_tp_pct)
          /\ \A i \in DOMAIN pm_slots[s].short_deal :
                pm_slots[s].current_price
                   > pm_tp_price(pm_slots[s].short_deal[i], pm_slots[s].current_tp_pct)

\* C4: a step taken in regime EXTREME with allocation (0, 0) opens no Deal,
\* in either direction, whatever the free capital and the open Deals; the
\* Deals that are open are still checked for fills in that step.
C4_NoOpenInExtreme ==
    [][ /\ bt_regime' = "EXTREME" =>
             Len(bt_open') + Len(bt_closed') = Len(bt_open) + Len(bt_closed)
        /\ ( /\ pp_regime' = "EXTREME"
             /\ get_regime_alloc(PROFILES(pp_profile), "EXTREME", pp_bullish') = <<0, 0>> )
           => pp_slot'.deal_counter = pp_slot.deal_counter /\ PaperSettled'
        /\ \A s \in DOMAIN pm_slots :
              ( /\ pm_slots'[s].current_regime = "EXTREME"
                /\ pm_get_regime_alloc("EXTREME", TRUE) = <<0, 0>> )
              => /\ pm_slots'[s].deal_counter = pm_slots[s].deal_counter
                 /\ pm_slots'[s].opens = <<>>
        /\ pm_dry_run => PmDrySettled'
      ]_vars

\* a portfolio Slot whose last cycle ran in EXTREME and closed a Deal
C4_Witness ==
    \E s \in DOMAIN pm_slots :
       /\ pm_slots[s].current_regime = "EXTREME"
       /\ pm_slots[s].closed # <<>>

\* C5: as soon as total equity is at or below 75 % of the capital the run
\* started with, the portfolio is halted.
C5_HaltAt75PctOfInitial ==
    (pm_equity > 0 /\ pm_equity * 100 <= (100 - KILL_LOSS_PCT) * pm_initial_capital)
       => pm_halted

\* C6: once halted is true it stays true, across further cycles and across
\* save_state / load_state of a restart, and from then on no Slot runs a
\* cycle or opens a Deal.
C6_HaltIsOneWay ==
    [][ pm_halted => /\ pm_halted'
                     /\ pm_slots' = pm_slots
                     /\ pm_pc' # "slots" ]_vars

\* the manager, halted, has been started again
C6_Witness ==
    pm_halted /\ pm_pc = "top"

\* every open Deal of the trader has been checked against the current price
LtSettled ==
    \A d \in LtOpenDeals :
       IF lt_kind = "live"
       THEN /\ d.tp_order # <<>> => lt_price < d.tp_order[1].price
            /\ \A i \in DOMAIN d.pending_so_ids : d.pending_so_ids[i].price < lt_price
       ELSE lt_price < (avg_entry(d) * (Pct100 + take_profit_pct)) \div Pct100

\* C7: once the drawdown circuit breaker of LiveTrader or PaperTrader has
\* triggered, the flag stays set, also across save_state / load_state, and
\* no later cycle opens a Deal; the open Deals are still checked for fills.
C7_BreakerBlocksOpening ==
    [][ "drawdown" \in lt.kill_reasons =>
           /\ lt'.circuit_breaker_triggered
           /\ lt'.deal_counter = lt.deal_counter
           /\ ~lt_trace'.can_trade
           /\ lt_trace'.fetch = "ok" => LtSettled' ]_vars

\* a cycle after the breaker in which everything else allowed an open
C7_Witness ==
    /\ "drawdown" \in lt.kill_reasons
    /\ lt_trace.fetch = "ok" /\ lt_trace.cb_before
    /\ lt_trace.eligible /\ ~lt_trace.can_trade

\* C8: a daily-loss breach pauses the opening of Deals in LiveTrader for
\* 24 hours: no Deal is opened while the pause is in force, and once it has
\* passed, with no drawdown breach, a Deal may be opened again.
C8_DailyPauseEnds ==
    (lt_kind = "live" /\ lt_trace.fetch = "ok") =>
       /\ lt_trace.paused => ~lt_trace.can_trade
       /\ ( /\ ~lt_trace.paused
            /\ lt_trace.eligible
            /\ lt.kill_reasons \subseteq {"daily"} ) => lt_trace.can_trade

\* C9: three failures in a row escalate: three failed pings or three cycles
\* that ended in an exception halt the portfolio, three failed cycles set
\* the kill switch of LiveTrader.
C9_ThreeFailuresEscalate ==
    /\ pm_ping_run >= ERROR_LIMIT => pm_halted
    /\ pm_exc_run >= ERROR_LIMIT => pm_halted
    /\ (lt_kind = "live" /\ lt_fail_run >= ERROR_LIMIT) => lt.circuit_breaker_triggered

\* C10: an open attempt whose order placement fails leaves no Deal for the
\* direction, the open set and the cash as they were, and deal_counter at
\* its value before the attempt.
C10_FailedOpenLeavesNoTrace ==
    /\ \A a \in PmOpens :
          a.outcome # "filled" => a.after = a.before /\ a.deal = <<>>
    /\ (lt_kind = "live" /\ lt_trace.can_trade /\ ~lt_trace.place_ok)
          => lt_trace.after = lt_trace.before

\* a portfolio Slot that has opened a Deal before and whose next MARKET
\* order raised
C10_Witness ==
    \E a \in PmOpens : a.outcome = "exception" /\ a.before >= 1

-----------------------------------------------------------------------------
\* the Deal state of the Slot holds the id of this exchange order
GwTracked(id) ==
    /\ gw_slot.deal # <<>>
    /\ \/ gw_slot.deal[1].tp_order_id = id
       \/ \E i \in DOMAIN gw_slot.deal[1].safety_order_ids :
              gw_slot.deal[1].safety_order_ids[i] = id

\* C11: a place_order call that failed is an unknown outcome, the driver asks
\* the exchange again before it concludes that the order does not exist: an
\* order the exchange accepted although the call failed is never left
\* untracked by the local Deal state (a resting safety order or take-profit is
\* held by its id, an executed base order by a Deal).
C11_AcceptedOrderIsTracked ==
    mode = "gw" =>
      /\ \A id \in DOMAIN gw_orders :
            (gw_orders[id].lost /\ gw_orders[id].status = "NEW") => GwTracked(id)
      /\ (gw_lost_base /\ gw_position > 0) => gw_slot.deal # <<>>


\* C12: in live portfolio mode every failure to place a take-profit order
\* triggers the emergency fallback: the pending safety orders of the Deal are
\* cancelled and the placement is made a second time, and when no take-profit
\* order results from the call an alert has been sent.
C12_TpFailureTriggersFallback ==
    mode = "gw" =>
      \A i \in DOMAIN gw_log :
         /\ (gw_log[i].attempts = 1) => gw_log[i].placed
         /\ (gw_log[i].attempts = 2) => gw_log[i].cancelled
         /\ ~gw_log[i].placed => gw_log[i].alert


\* the exit a trailing LONG Deal must take on the bar (high, low) when the
\* extreme is tracked on that bar whether or not the bar reaches the target
trail_trigger_long(d, bar, trailing_tp_pct) ==
    (Max(d.trailing_high, bar.high) * (Pct100 - trailing_tp_pct)) \div Pct100

\* C13: in trailing take-profit mode a LONG Deal that has been armed (a bar
\* reached its take-profit target) stays armed: it closes on the first later
\* bar whose low has retraced by trail_pct from the tracked high, also when
\* that bar's high is back below the target.
C13_ArmedDealClosesOnRetrace ==
    [][ (mode = "bt" /\ bt_cfg.trailing > 0) =>
          \A i \in DOMAIN bt_open :
             (/\ bt_open[i].direction = "LONG"
              /\ bt_open[i].trailing_high > 0
              /\ bt_bar'.low <= trail_trigger_long(bt_open[i], bt_bar', bt_cfg.trailing))
             => \E j \in DOMAIN bt_closed' :
                   /\ j > Len(bt_closed)
                   /\ bt_closed'[j].base_order = bt_open[i].base_order ]_vars


\* s is a prefix of t: what was recorded stays, as it was recorded
IsPrefix(s, t) ==
    /\ Len(s) <= Len(t)
    /\ \A j \in DOMAIN s : t[j] = s[j]

\* C14: close is terminal and happens once per Deal.  In every step of the
\* backtest, the paper slot and the single-instrument engine: the closed
\* Deals stay as they were closed (no safety order added, close price, close
\* fee and PnL kept), no closed Deal is among the Deals that are processed,
\* and a Deal closed by the step was open before it, is open no longer and
\* is recorded as closed once.
C14_CloseIsTerminal ==
    [][ /\ IsPrefix(bt_closed, bt_closed')
        /\ \A i \in DOMAIN bt_open' : is_open(bt_open'[i])
        /\ \A j \in DOMAIN bt_closed' :
              /\ ~is_open(bt_closed'[j])
              /\ j > Len(bt_closed) =>
                    \E i \in DOMAIN bt_open :
                       bt_open[i].base_order = bt_closed'[j].base_order
        /\ Len(bt_closed') - Len(bt_closed) <= Len(bt_open)
        /\ IsPrefix(pp_slot.closed, pp_slot'.closed)
        /\ \A j \in DOMAIN pp_slot'.closed :
              j > Len(pp_slot.closed) =>
                 LET c == pp_slot'.closed[j]
                     before == v3_get_deal(pp_slot, c.direction)
                     after == v3_get_deal(pp_slot', c.direction)
                 IN  /\ before # <<>>
                     /\ after # <<>> => after[1].deal_id # before[1].deal_id
                     /\ \A k \in DOMAIN pp_slot'.closed :
                           (k > Len(pp_slot.closed) /\ k # j)
                              => pp_slot'.closed[k].direction # c.direction
        /\ IsPrefix(lt.closed_deals, lt'.closed_deals)
        /\ \A i \in DOMAIN lt'.open_deals :
              /\ is_open(lt'.open_deals[i])
              /\ \A j \in DOMAIN lt'.closed_deals :
                    lt'.closed_deals[j].deal_id # lt'.open_deals[i].deal_id
        /\ \A j, k \in DOMAIN lt'.closed_deals :
              /\ ~is_open(lt'.closed_deals[j])
              /\ j # k => lt'.closed_deals[j].deal_id # lt'.closed_deals[k].deal_id
      ]_vars

\* the backtest holds a closed Deal with a safety order and an open Deal
\* that a step has processed since (it has filled a safety order)
C14_Witness ==
    /\ mode = "bt"
    /\ \E j \in DOMAIN bt_closed : so_count(bt_closed[j]) >= 1
    /\ \E i \in DOMAIN bt_open : so_count(bt_open[i]) >= 1


\* entry x (1 - dev) for LONG, entry x (1 + dev) for SHORT, dev in 1/1000 %
LevelBelow(entry, dev, direction) ==
    IF direction = "LONG" THEN (entry * (Pct100 - dev)) \div Pct100
    ELSE (entry * (Pct100 + dev)) \div Pct100

\* price is avg x (1 + tp_pct) (LONG) or avg x (1 - tp_pct) (SHORT), to the tick
IsTpOf(price, avg, tp_pct, direction) ==
    LET exact == IF direction = "LONG" THEN avg * (Pct100 + tp_pct)
                 ELSE avg * (Pct100 - tp_pct)
    IN  /\ 2 * (price * Pct100 - exact) <= Pct100
        /\ 2 * (exact - price * Pct100) <= Pct100

\* the average entry moved the way a safety order moves it
AvgMoved(direction, before, after) ==
    IF direction = "LONG" THEN after < before ELSE after > before

\* C15: the first safety-order level of a Deal is entry x (1 - deviation)
\* (LONG; entry x (1 + deviation) for SHORT); every fill of a pending level
\* strictly lowers (LONG) or raises (SHORT) the average entry; and the
\* take-profit price in use is (average entry) x (1 + tp_pct) for LONG,
\* (average entry) x (1 - tp_pct) for SHORT, with the average as it stands
\* after the fills.  Backtest engine and paper slot.
C15_SafetyOrderMovesAverageAndTp ==
    [][ /\ \A d \in BtDeals' :
              /\ so_count(d) >= 1 =>
                    \E m \in (IF bt_cfg.vol_adjusted_so THEN DevMults ELSE {100}) :
                       d.safety_orders[1].price =
                          fill_price(LevelBelow(d.base_order.price,
                                                (price_deviation_pct * m) \div 100,
                                                d.direction),
                                     entry_side(d))
              /\ (~is_open(d) /\ bt_cfg.trailing = 0) =>
                    d.close_price =
                       fill_price(IF d.direction = "LONG"
                                  THEN (avg_entry(d) * (Pct100 + take_profit_pct)) \div Pct100
                                  ELSE (avg_entry(d) * (Pct100 - take_profit_pct)) \div Pct100,
                                  exit_side(d))
        /\ \A i \in DOMAIN bt_open : \A d2 \in BtDeals' :
              (/\ d2.base_order = bt_open[i].base_order
               /\ d2.direction = bt_open[i].direction
               /\ so_count(d2) > so_count(bt_open[i])
               /\ \A j \in DOMAIN bt_closed : bt_closed[j] # d2)
              => AvgMoved(d2.direction, avg_entry(bt_open[i]), avg_entry(d2))
        /\ \A d \in PaperDeals' :
              /\ IsTpOf(d.tp_price, d.avg_entry,
                        v3_current_tp_pct(PROFILES(pp_profile)), d.direction)
              /\ d.virtual_so_levels # <<>> =>
                    LET p == PROFILES(pp_profile)
                        dev1 == p.deviation_range[1]
                                  + (p.deviation_range[2] - p.deviation_range[1])
                                       \div p.max_safety_orders
                        exact == IF d.direction = "LONG"
                                 THEN d.entry_price * (Pct100 - dev1)
                                 ELSE d.entry_price * (Pct100 + dev1)
                        lp == d.virtual_so_levels[1].price
                    IN  /\ 2 * (lp * Pct100 - exact) <= Pct100
                        /\ 2 * (exact - lp * Pct100) <= Pct100
        /\ \A d \in PaperDeals : \A d2 \in PaperDeals' :
              (/\ d2.deal_id = d.deal_id /\ d2.direction = d.direction
               /\ d2.safety_orders_filled > d.safety_orders_filled)
              => AvgMoved(d.direction, d.avg_entry, d2.avg_entry)
      ]_vars

\* the backtest holds a LONG Deal with two safety orders filled and a SHORT
\* Deal with one
C15_Witness ==
    /\ mode = "bt"
    /\ \E d \in BtDeals : d.direction = "LONG" /\ so_count(d) >= 2
    /\ \E d \in BtDeals : d.direction = "SHORT" /\ so_count(d) >= 1


\* C16: for every profile, every regime (EXTREME with the profile's extreme
\* allocation, and a regime the table does not know) and both trends, the
\* pair get_regime_alloc returns satisfies 0 <= long <= max_long,
\* 0 <= short <= max_short and long + short <= 100 %.
C16_AllocWithinBias ==
    (mode = "al" /\ al_out # <<>>) =>
       LET max_bias == PROFILES(al_in.profile).max_directional_bias
           long_alloc == al_out[1][1]
           short_alloc == al_out[1][2]
       IN  /\ 0 <= long_alloc /\ long_alloc <= max_bias[1]
           /\ 0 <= short_alloc /\ short_alloc <= max_bias[2]
           /\ long_alloc + short_alloc <= 100

\* the medium profile in EXTREME: (20, 20) comes back as (25, 15), the excess
\* over the short cap moved to the long side
C16_Witness ==
    /\ mode = "al"
    /\ al_in.profile = "medium" /\ al_in.regime = "EXTREME"
    /\ al_out = << <<25, 15>> >>


\* C17: a change of the computed take-profit % (deviation %) below
\* TP_UPDATE_THRESHOLD (DEV_UPDATE_THRESHOLD) leaves current_tp_pct
\* (current_dev_pct) and the live orders as they are, so the parameter in
\* force is always the one the Deal's live take-profit order (its live safety
\* orders) was placed with.
C17_ParamInForceIsOrdersParam ==
    (mode = "gw" /\ gw_env = "adaptive" /\ gw_slot.deal # <<>>) =>
       LET deal == gw_slot.deal[1]
       IN  /\ deal.tp_order_id # 0 =>
                 gw_orders[deal.tp_order_id].pct = gw_slot.current_tp_pct
           /\ \A i \in DOMAIN deal.safety_order_ids :
                 gw_orders[deal.safety_order_ids[i]].pct = gw_slot.current_dev_pct


\* C18: after every update_adaptive_tp, whatever the ATR and the regime:
\* TP_MIN <= current_tp_pct <= TP_MAX, DEV_MIN <= current_dev_pct <= DEV_MAX
\* and current_dev_pct >= DEV_TP_FLOOR_MULT x current_tp_pct, the take-profit
\* % being the one in force after that same update.
C18_AdaptiveParamsWithinBounds ==
    mode = "gw" =>
       /\ TP_MIN <= gw_slot.current_tp_pct /\ gw_slot.current_tp_pct <= TP_MAX
       /\ DEV_MIN <= gw_slot.current_dev_pct /\ gw_slot.current_dev_pct <= DEV_MAX
       /\ 10 * gw_slot.current_dev_pct
             >= DEV_TP_FLOOR_MULT_x10 * gw_slot.current_tp_pct

\* an update in RANGING (where deviation / take-profit is smallest) that
\* raised the take-profit % while the floor of the previous one was passed
C18_Witness ==
    /\ mode = "gw" /\ gw_env = "sweep"
    /\ gw_slot.current_regime = "RANGING"
    /\ gw_slot.current_tp_pct = 2311
    /\ gw_slot.current_dev_pct = 3625


\* C19: rebalance is idempotent: a second call of PortfolioManager.rebalance
\* with the same ranking (total capital unchanged, nothing in between)
\* leaves every Slot's alloc_pct, alloc_capital, scanner_score and status,
\* and the set of Slots, as the first call left them.
C19_RebalanceIsIdempotent ==
    [][ (/\ mode = "rb" /\ rb_kind = "pm"
         /\ rb_last # <<>> /\ rb_last' # <<>>
         /\ rb_last'[1].ranking = rb_last[1].ranking)
        => rb_slots' = rb_slots ]_vars


\* the coins the last call selected: the first max_coins entries with a
\* score above 0, in the list's order (PortfolioManager) or best score
\* first (paper trader)
RbSelected ==
    LET positive == SelectSeq(rb_last[1].ranking, LAMBDA s : s.score > 0)
        ordered == IF rb_kind = "pm" THEN positive ELSE rb_sort(positive)
    IN  SubSeq(ordered, 1, Min(RbMaxCoins, Len(ordered)))

\* C20: rebalance gives each of the selected top max_coins coins the share
\* score / (sum of the selected scores) of total capital after the reserve
\* and drops the candidates below the floor: every Slot the call created or
\* updated belongs to a selected coin whose share is at least MIN_ALLOC_PCT,
\* carries that share and score, and has alloc_capital = total_capital x
\* share x (1 - CAPITAL_RESERVE_PCT) (to the basis point of the share).
C20_RebalanceSharesAndFloor ==
    (mode = "rb" /\ rb_last # <<>>) =>
       \A sym \in rb_last[1].touched :
          \E i \in DOMAIN RbSelected :
             LET score == RbSelected[i].score
                 total == SumScores(RbSelected)
                 exact == RbTotalCapital * score * (100 - CAPITAL_RESERVE_PCT)
             IN  /\ RbSelected[i].symbol = sym
                 /\ score * 10000 >= MIN_ALLOC_PCT * total
                 /\ rb_slots[sym] # <<>>
                 /\ rb_slots[sym][1].scanner_score = score
                 /\ rb_slots[sym][1].alloc_pct * total <= score * 10000
                 /\ (rb_slots[sym][1].alloc_pct + 1) * total > score * 10000
                 /\ rb_slots[sym][1].alloc_capital * total <= exact
                 /\ (rb_slots[sym][1].alloc_capital + 10) * total > exact

\* a call that updated one Slot and dropped a selected coin whose share
\* (8 / 63) is below the floor
C20_Witness ==
    /\ mode = "rb" /\ rb_kind = "pm" /\ rb_last # <<>>
    /\ rb_last[1].ranking = <<RbEntry("BBBUSDT", 55), RbEntry("CCCUSDT", 8)>>
    /\ rb_last[1].touched = {"BBBUSDT"}
    /\ rb_slots["BBBUSDT"] # <<>> /\ rb_slots["BBBUSDT"][1].alloc_pct = 8730
    /\ held_long(rb_slots["BBBUSDT"][1], rb_now)
    /\ rb_slots["CCCUSDT"] = <<>>


\* the Slot of sym is in self.slots, with an open Deal
RbHolds(slots, sym) == slots[sym] # <<>> /\ slots[sym][1].deal

\* the scanner's list has a coin outside the active Slots whose score is
\* at least ROTATION_MIN_IMPROVEMENT_PCT above the score of slot
RbBetterReplacement(slots, ranking, slot) ==
    \E i \in DOMAIN ranking :
       /\ ranking[i].score > 0
       /\ ~(slots[ranking[i].symbol] # <<>>
            /\ slots[ranking[i].symbol][1].status = "active")
       /\ (ranking[i].score - slot.scanner_score) * 100
             >= ROTATION_MIN_IMPROVEMENT_PCT * slot.scanner_score

\* C21: a Slot that leaves the target set is not removed while it holds an
\* open Deal: an active Slot with an open Deal is still in the portfolio
\* after every step; it is marked winding_down only when it has been held
\* for MIN_HOLD_HOURS and the scanner's best replacement scores at least
\* 20 % above it; a winding-down Slot opens no Deal, and every cycle checks
\* its open Deal: a take-profit hit in the cycle closes it.
C21_WindDownBeforeRemoval ==
    [][ mode = "rb" => \A sym \in RbSymbols :
          /\ (RbHolds(rb_slots, sym) /\ rb_slots[sym][1].status = "active")
                => rb_slots'[sym] # <<>>
          /\ ( /\ rb_slots[sym] # <<>> /\ rb_slots[sym][1].status = "active"
               /\ rb_slots'[sym] # <<>> /\ rb_slots'[sym][1].status = "winding_down" )
                => /\ held_long(rb_slots[sym][1], rb_now)
                   /\ rb_last' # <<>>
                   /\ RbBetterReplacement(rb_slots, rb_last'[1].ranking, rb_slots[sym][1])
          /\ ( /\ rb_slots[sym] # <<>> /\ rb_slots[sym][1].status = "winding_down"
               /\ rb_slots'[sym] # <<>> )
                => /\ rb_slots'[sym][1].deal => rb_slots[sym][1].deal
                   /\ (rb_step'.op = "cycle" /\ rb_step'.in_[1].close)
                         => ~rb_slots'[sym][1].deal
      ]_vars


\* the Slot has been winding down for more than WIND_DOWN_TIMEOUT_S
RbTimedOut(slot, now) ==
    /\ slot.wind_down_start # <<>>
    /\ (now - slot.wind_down_start[1]) * 3600 > WIND_DOWN_TIMEOUT_S

\* C22: a winding-down Slot of the PortfolioManager is removed by the first
\* cycle that finds it without an open Deal, and by the first cycle that
\* finds it more than WIND_DOWN_TIMEOUT_S after its wind_down_start, open
\* Deal or not; until then it stays winding_down and its wind_down_start,
\* which is set, is not changed by any step, a save_state / load_state
\* included.
C22_WindDownEnds ==
    [][ (mode = "rb" /\ rb_kind = "pm") => \A sym \in RbSymbols :
          (rb_slots[sym] # <<>> /\ rb_slots[sym][1].status = "winding_down") =>
             /\ rb_slots[sym][1].wind_down_start # <<>>
             /\ ( /\ rb_step'.op = "cycle"
                  /\ \/ ~rb_slots[sym][1].deal
                     \/ RbTimedOut(rb_slots[sym][1], rb_now) )
                   => rb_slots'[sym] = <<>>
             /\ rb_slots'[sym] # <<>>
                   => /\ rb_slots'[sym][1].status = "winding_down"
                      /\ rb_slots'[sym][1].wind_down_start
                            = rb_slots[sym][1].wind_down_start
      ]_vars

\* a cycle has removed a Slot whose Deal was still open: its time was up
C22_Witness ==
    /\ mode = "rb" /\ rb_kind = "pm"
    /\ rb_step.op = "cycle" /\ rb_step.forced # {}


\* C23: every entry order a live Slot places (the MARKET order that opens a
\* Deal, a safety order) has been tested against a margin figure that was
\* read from the exchange during that same Slot cycle, and is placed only
\* when that figure less the order's margin leaves the reserve.
C23_CommitOnFreshMargin ==
    mode = "mg" =>
       \A k \in DOMAIN mg_log :
          /\ mg_log[k].figure # <<>>
          /\ mg_log[k].read
          /\ mg_log[k].figure[1] - mg_log[k].needed >= mg_log[k].reserve


-----------------------------------------------------------------------------
\* the forward pass of a trader from state st on the candle in_
lt_pass(st, in_, now) ==
    IF lt_kind = "live" THEN lt_live_pass(st, in_, now).s4
    ELSE lt_paper_pass(st, in_, now).s4

-----------------------------------------------------------------------------
\* C25: however the polling loop ended, the state on disk is the state the
\* process had when start() was left (a final snapshot was written after
\* the last change), and a loop that ended on the stop flag left at the
\* while test, between two cycles.  For the LiveTrader: a stopped trader's
\* state.json is its state.
C25_FinalSnapshotOnExit ==
    /\ (mode = "lp" /\ lp_pc \in {"returned", "raised"}) =>
          /\ lp_disk = <<lp_snapshot(lp_st)>>
          /\ lp_exit.how = "flag" => lp_exit.at = "test"
    /\ (mode = "lt" /\ ~lt_up /\ lt_disk # <<>>) => lt_disk = <<lt_state_dict(lt)>>


-----------------------------------------------------------------------------
\* C26: fed the same bars, the backtest, the paper trader and the dry-run
\* Slot have, after every bar, filled the same number of safety orders of
\* the Deal and agree on whether it is closed.
C26_SameTriggers ==
    mode = "eq" =>
       /\ eq_pt_view(eq_pt) = eq_bt_view(eq_bt)
       /\ eq_dry_view(eq_dry) = eq_bt_view(eq_bt)


-----------------------------------------------------------------------------
-----------------------------------------------------------------------------
-----------------------------------------------------------------------------
\* C29: within one CoinSlot.run_cycle the price and the regime that the
\* trigger checks and the new-Deal decision use are the pair this cycle's
\* candle fetch gave: a cycle that calls open_deal, or whose dry-run check
\* fills a safety order or closes a Deal on the price, has fetched its
\* price and regime itself, and the price is above 0.
C29_FreshPriceAndRegime ==
    \A s \in DOMAIN pm_slots :
       LET slot == pm_slots[s]
       IN  /\ slot.opens # <<>> =>
                /\ slot.fetched = <<[price |-> slot.current_price,
                                     regime |-> slot.current_regime]>>
                /\ slot.current_price > 0
           /\ (pm_dry_run /\ slot.closed # <<>>) =>
                slot.fetched = <<[price |-> slot.current_price,
                                  regime |-> slot.current_regime]>>


-----------------------------------------------------------------------------
\* C30: when check_position_sync has obtained the exchange's position and
\* it differs from the tracked Deal quantity, the exchange is the truth:
\* after the call the tracked quantity agrees with every reported row (the
\* net of LONG and SHORT for a one-way row, the side's Deal for a hedge
\* row), the safety orders of every Deal it cleared are no longer open at
\* the exchange, and a call that changed the Slot's Deals has printed a
\* line or sent a notification.
C30_ExchangeIsTruthAndFlagged ==
    (mode = "ps" /\ ps_last.called /\ ps_last.asked /\ ~ps_last.rep.raises) =>
       LET qty(deal) == IF deal = <<>> THEN 0 ELSE deal[1].total_qty
           tracked(side) ==
               IF side = "LONG" THEN qty(ps_slot.long_deal)
               ELSE IF side = "SHORT" THEN 0 - qty(ps_slot.short_deal)
               ELSE qty(ps_slot.long_deal) - qty(ps_slot.short_deal)
           cleared == (IF ps_last.before.long_deal # <<>> /\ ps_slot.long_deal = <<>>
                       THEN PsIds(ps_last.before.long_deal) ELSE {})
                      \cup (IF ps_last.before.short_deal # <<>> /\ ps_slot.short_deal = <<>>
                            THEN PsIds(ps_last.before.short_deal) ELSE {})
       IN  /\ \A i \in DOMAIN ps_last.rep.rows :
                 ps_last.rep.rows[i].symbol = PsSymbol =>
                    PsAbs(ps_last.rep.rows[i].positionAmt
                          - tracked(ps_last.rep.rows[i].positionSide)) < PS_QTY_TOLERANCE
           /\ cleared \cap ps_orders = {}
           /\ ps_slot # ps_last.before => (ps_last.log # <<>> \/ ps_last.events # <<>>)


-----------------------------------------------------------------------------
-----------------------------------------------------------------------------
\* C32: the extended classifier applies its overlays per bar in a fixed
\* priority order and stops at the first that matches: (1) pattern score
\* above the threshold -> BREAKOUT_WARNING, (2) spring -> ACCUMULATION,
\* (3) a recent selling / buying climax with range tightening and flat or
\* declining volume -> ACCUMULATION / DISTRIBUTION, (4) base RANGING with
\* declining volume and the close in the lower 30% of the lookback range ->
\* ACCUMULATION, (5) a confirmed channel breakout with volume >= 2x ->
\* TRENDING, >= 3x -> EXTREME, (6) channel narrowing -> TRENDING to
\* MILD_TREND, MILD_TREND to RANGING; a bar no rule matches keeps its base
\* label.
C32_OverlaysInPriorityOrder ==
    (mode = "cg" /\ cg_last.version = "v2") =>
       \A i \in 1..Len(cg_last.out) :
          LET r == cg_last.df.rows[i]
              base == cg_last.base[i]
              threshold == IF cg_last.timeframe \in {"5m", "15m"} THEN 80 ELSE 75
              quiet == r.rt < 100 /\ r.vt \in {"decreasing", "flat"}
              volume == cg_vol_ratio(r)
              expected ==
                 IF r.vuvu > threshold THEN "BREAKOUT_WARNING"
                 ELSE IF r.spring THEN "ACCUMULATION"
                 ELSE IF "selling_climax" \in r.vc /\ quiet THEN "ACCUMULATION"
                 ELSE IF "buying_climax" \in r.vc /\ quiet THEN "DISTRIBUTION"
                 ELSE IF base = "RANGING" /\ r.vt = "decreasing" /\ r.low
                 THEN "ACCUMULATION"
                 ELSE IF r.cb # "none" /\ volume >= 300 THEN "EXTREME"
                 ELSE IF r.cb # "none" /\ volume >= 200 THEN "TRENDING"
                 ELSE IF r.narrow /\ base = "TRENDING" THEN "MILD_TREND"
                 ELSE IF r.narrow /\ base = "MILD_TREND" THEN "RANGING"
                 ELSE base
          IN  cg_last.out[i] = expected


-----------------------------------------------------------------------------
\* C40: a bar the base classifier labels EXTREME is never relabelled by
\* the extended classifier to a regime under which the engine opens new
\* Deals: its final label is EXTREME or BREAKOUT_WARNING, both with the
\* allocation (0, 0) in the live allocation table, whatever overlays match.
C40_ExtremeStaysClosed ==
    (mode = "cg" /\ cg_last.version = "v2") =>
       \A i \in 1..Len(cg_last.out) :
          cg_last.base[i] = "EXTREME" =>
             /\ cg_last.out[i] \in {"EXTREME", "BREAKOUT_WARNING"}
             /\ V3_REGIME_ALLOC(cg_last.out[i]) = <<0, 0>>


-----------------------------------------------------------------------------
\* alloc_capital summed over the Slots S holds, active or winding down
RECURSIVE RbAllocated(_, _)
RbAllocated(slots, S) ==
    IF S = {} THEN 0
    ELSE LET s == CHOOSE x \in S : TRUE
         IN  (IF slots[s] = <<>> THEN 0 ELSE slots[s][1].alloc_capital)
             + RbAllocated(slots, S \ {s})

RbActive(slots) ==
    {s \in RbSymbols : slots[s] # <<>> /\ slots[s][1].status = "active"}

\* C33: after any sequence of rebalance, add, wind-down, removal and
\* per-cycle capital-update operations of the PortfolioManager, the number
\* of Slots with status active never exceeds max_coins, and alloc_capital
\* summed over all Slots (active and winding down) never exceeds
\* total_capital x (1 - CAPITAL_RESERVE_PCT).
C33_SlotsWithinBudget ==
    (mode = "rb" /\ rb_kind = "pm") =>
       /\ Cardinality(RbActive(rb_slots)) <= RbMaxCoins
       /\ RbAllocated(rb_slots, RbSymbols)
             <= RbTotalCapital * (100 - CAPITAL_RESERVE_PCT)


-----------------------------------------------------------------------------
\* C34: a take-profit fill confirmed by the exchange is never lost: when a
\* Deal's TP order is filled at the exchange, the Deal is closed in the
\* cycle that polls it, also when a safety-order fill is processed or the
\* TP order is cancelled and replaced in that cycle; a filled TP order id
\* is never overwritten by a new TP order before its fill has been
\* observed.  Stated for one cycle of a live CoinSlot (a step in which the
\* exchange fills nothing): the Deal is closed by its take-profit, or,
\* when the poll did not answer, still holds the filled order's id.
C34_TpFillNeverLost ==
    [][ ( /\ mode = "gw" /\ gw_env # "sweep"
          /\ gw_slot.deal # <<>>
          /\ gw_slot.deal[1].tp_order_id # 0
          /\ gw_orders[gw_slot.deal[1].tp_order_id].status = "FILLED"
          /\ \A id \in DOMAIN gw_orders : gw_orders'[id].status = "FILLED"
                                             => gw_orders[id].status = "FILLED" )
        => \/ gw_slot'.deals_completed = gw_slot.deals_completed + 1
           \/ /\ gw_slot'.deal # <<>>
              /\ gw_slot'.deal[1].deal_id = gw_slot.deal[1].deal_id
              /\ gw_slot'.deal[1].tp_order_id = gw_slot.deal[1].tp_order_id
      ]_vars


-----------------------------------------------------------------------------
\* close proceeds minus total invested, summed over the Deals of closed
RECURSIVE BtRealized(_)
BtRealized(closed) ==
    IF closed = <<>> THEN 0
    ELSE returned_cash(Head(closed)) - total_invested(Head(closed))
         + BtRealized(Tail(closed))

\* the free cash of the running bot: equity (MartingaleBot), or
\* long_capital + short_capital (DualMartingaleBot)
BtFreeCash == IF bt_cfg.dual THEN bt_long_cap + bt_short_cap ELSE bt_equity

\* C35: backtest accounting is conservative: every safety-order fill debits
\* free cash by the order's size, so that at every step where no Deal is
\* open, free cash minus initial capital equals the sum over the closed
\* Deals of (close proceeds - total invested); for MartingaleBot.run and
\* for DualMartingaleBot.run.
C35_CashIsConserved ==
    (mode = "bt" /\ bt_open = <<>>) =>
       BtFreeCash - initial_capital = BtRealized(bt_closed)


-----------------------------------------------------------------------------
\* C37: in the backtest, the pre-slippage exit price of a Deal closed by
\* take-profit is a price the closing bar traded through: for LONG it never
\* exceeds that bar's high, for SHORT it is never below that bar's low, in
\* fixed and in trailing mode.  The Deals a step closes are the new entries
\* of closed_deals; slippage is monotone, so the exit price after slippage
\* is compared with the bar's extreme after the same slippage.
C37_ExitWithinBar ==
    [][ mode = "bt" =>
          \A i \in (Len(bt_closed) + 1)..Len(bt_closed') :
             LET d == bt_closed'[i]
             IN  IF d.direction = "LONG"
                 THEN d.close_price <= fill_price(bt_bar'.high, "sell")
                 ELSE d.close_price >= fill_price(bt_bar'.low, "buy")
      ]_vars


-----------------------------------------------------------------------------
\* C36: in live mode the pending safety orders of a Deal always are the
\* contiguous ladder levels filled+1 .. k, so that the n-th fill recorded
\* for the Deal is the fill of ladder level n; also when the placement of
\* one level fails while a deeper one succeeds, and after the safety
\* orders are cancelled and placed again.
C36_PendingLevelsContiguous ==
    (mode = "gw" /\ gw_slot.deal # <<>>) =>
       LET deal == gw_slot.deal[1]
       IN  \A j \in 1..Len(deal.safety_order_ids) :
              gw_orders[deal.safety_order_ids[j]].n = deal.safety_orders_filled + j


\* the Deals a CoinSlot holds, LONG then SHORT
SlotDeals(slot) == slot.long_deal \o slot.short_deal
\* the Deals the open_deal calls of the Slot's last run_cycle stored
SlotOpened(slot) ==
    SelectSeq(slot.opens, LAMBDA o : o.deal # <<>> /\ o.deal # o.had)
\* every Deal a LiveTrader has opened
LtAllDeals(st) == st.open_deals \o st.closed_deals
\* no two Deals of the sequence share a deal_id
DistinctIds(deals) ==
    \A i, j \in DOMAIN deals : i # j => deals[i].deal_id # deals[j].deal_id
\* a Deal of after that before does not hold carries an id above the
\* counter and above every id of before
FreshIdsAbove(before, after, counter) ==
    \A i \in DOMAIN after :
        (\A j \in DOMAIN before : before[j].deal_id # after[i].deal_id)
        => /\ after[i].deal_id > counter
           /\ \A j \in DOMAIN before : after[i].deal_id > before[j].deal_id

\* C38: deal identifiers are unique and increasing per instrument.  In
\* every step of a CoinSlot (run_cycle with its opens that fill, fail and
\* roll the counter back, shutdown, start with load_from_state) and of a
\* LiveTrader (a pass of the loop, stop with save_state, start with
\* load_state): the Deals held afterwards carry pairwise different ids; a
\* Deal that was not held before carries an id above the counter as it was
\* before the step, hence above every id handed out earlier, and at most
\* the counter afterwards; the Deals one run_cycle opens carry increasing
\* ids; and the counter ends no lower than it started.
C38_DealIdsUniqueIncreasing ==
    [][/\ mode = "pm" =>
            \A s \in DOMAIN pm_slots :
               /\ pm_slots'[s].deal_counter >= pm_slots[s].deal_counter
               /\ DistinctIds(SlotDeals(pm_slots'[s]))
               /\ FreshIdsAbove(SlotDeals(pm_slots[s]), SlotDeals(pm_slots'[s]),
                                pm_slots[s].deal_counter)
               /\ \A i \in DOMAIN SlotDeals(pm_slots'[s]) :
                     SlotDeals(pm_slots'[s])[i].deal_id <= pm_slots'[s].deal_counter
               /\ pm_slots'[s] # pm_slots[s] /\ pm_pc = "slots" =>
                     LET opened == SlotOpened(pm_slots'[s])
                     IN  \A i, j \in DOMAIN opened :
                            /\ opened[i].deal[1].deal_id > pm_slots[s].deal_counter
                            /\ i < j => opened[i].deal[1].deal_id
                                          < opened[j].deal[1].deal_id
       /\ mode = "lt" =>
            /\ lt'.deal_counter >= lt.deal_counter
            /\ DistinctIds(LtAllDeals(lt'))
            /\ FreshIdsAbove(LtAllDeals(lt), LtAllDeals(lt'), lt.deal_counter)
            /\ \A i \in DOMAIN LtAllDeals(lt') :
                  LtAllDeals(lt')[i].deal_id <= lt'.deal_counter
       /\ mode = "gw" =>
            /\ gw_slot'.deal_counter >= gw_slot.deal_counter
            /\ FreshIdsAbove(gw_slot.deal, gw_slot'.deal, gw_slot.deal_counter)
            /\ \A i \in DOMAIN gw_slot'.deal :
                  gw_slot'.deal[i].deal_id <= gw_slot'.deal_counter
      ]_vars

\* C38 witness: a live CoinSlot, started again from its saved state with
\* the counter at 2 or more, holds a Deal numbered above 1 after an
\* open_deal call of its last cycle rolled the counter back; and a
\* LiveTrader loaded from state.json holds two Deals, one closed, with the
\* later one numbered higher
C38_Witness ==
    \/ /\ mode = "pm" /\ ~pm_dry_run /\ pm_pc = "top" /\ pm_disk # <<>>
       /\ pm_equity = 0
       /\ \E s \in DOMAIN pm_slots :
             /\ pm_slots[s].deal_counter >= 2
             /\ \E i \in DOMAIN SlotDeals(pm_slots[s]) :
                   SlotDeals(pm_slots[s])[i].deal_id >= 2
             /\ \E i \in DOMAIN pm_slots[s].opens :
                   /\ pm_slots[s].opens[i].outcome # "filled"
                   /\ pm_slots[s].opens[i].after = pm_slots[s].opens[i].before
    \/ /\ mode = "lt" /\ lt_kind = "live" /\ lt_up /\ lt_disk # <<>>
       /\ lt_trace = NoTrace
       /\ lt.closed_deals # <<>> /\ lt.open_deals # <<>>
       /\ lt.open_deals[1].deal_id > lt.closed_deals[1].deal_id


\* C39: a LiveTrader never commits more than its free cash: after any
\* sequence of Deal openings and safety-order fills its cash is not
\* negative
C39_CashNeverNegative ==
    mode = "lt" /\ lt_kind = "live" => lt.cash >= 0

=============================================================================
